---- MODULE Spec2Model ----
(***************************************************************************)
(* Precedent similarity and scoring engine of ledgermind: the vector      *)
(* repository (storeVector, findSimilar, cosineSimilarity), the           *)
(* /similarity/query aggregate, the /events and /overrides handlers with  *)
(* the mark_event_overridden trigger, and the /decisions/batch import.    *)
(*                                                                         *)
(* Numbers.  JavaScript numbers are modelled by exact rationals <<n, d>>  *)
(* (d > 0, lowest terms).  Embedding components are integers and the      *)
(* vectors the model draws have perfect-square norms, so Math.sqrt is     *)
(* exact on them and every similarity is the rational the code's IEEE     *)
(* division rounds.  Floating-point rounding itself is not modelled; the  *)
(* overflow of a sum of products to Infinity is, on a scaled-down range   *)
(* (MaxFinite stands for Number.MAX_VALUE).                                *)
(*                                                                         *)
(* Optional values.  A JavaScript value that may be undefined/null is a   *)
(* sequence of length <= 1: <<>> is undefined/null, <<x>> is x.           *)
(***************************************************************************)
EXTENDS Integers, Sequences, FiniteSets, TLC

VARIABLES
  events,     \* table decision_events, in insertion order; event_id = index
  vectors,    \* table decision_vectors, in insertion order
  overrides,  \* table override_events, in insertion order
  posts,      \* POST /events requests between createEvent and their response
  imports,    \* POST /decisions/batch requests: one record per request id
  response    \* the HTTP response the last step sent (<<>> when it sent none)

vars == <<events, vectors, overrides, posts, imports, response>>

None == <<>>
Some(x) == <<x>>

-----------------------------------------------------------------------------
(* Exact rational arithmetic standing for JavaScript number arithmetic.    *)

Abs(n) == IF n < 0 THEN -n ELSE n

RECURSIVE Gcd(_, _)
Gcd(a, b) == IF b = 0 THEN a ELSE Gcd(b, a % b)

\* n / d in lowest terms with a positive denominator (d # 0).
Rat(n, d) ==
  LET g == Gcd(Abs(n), Abs(d))
      s == IF d < 0 THEN -1 ELSE 1
  IN  <<(s * n) \div g, (s * d) \div g>>

RInt(n) == <<n, 1>>
RAdd(a, b) == Rat(a[1] * b[2] + b[1] * a[2], a[2] * b[2])
RSub(a, b) == Rat(a[1] * b[2] - b[1] * a[2], a[2] * b[2])
RMul(a, b) == Rat(a[1] * b[1], a[2] * b[2])
RDiv(a, b) == Rat(a[1] * b[2], a[2] * b[1])
\* NaN is the pair with a zero denominator; every comparison with it is false.
NaN == <<0, 0>>
RLeq(a, b) == a[2] # 0 /\ b[2] # 0 /\ a[1] * b[2] <= b[1] * a[2]
RLess(a, b) == a[2] # 0 /\ b[2] # 0 /\ a[1] * b[2] < b[1] * a[2]
RMax(a, b) == IF RLeq(a, b) THEN b ELSE a
RMin(a, b) == IF RLeq(a, b) THEN a ELSE b

\* Math.sqrt on a non-negative integer, exact on perfect squares (floor otherwise).
ISqrt(n) == CHOOSE r \in 0..n : r * r <= n /\ n < (r + 1) * (r + 1)

-----------------------------------------------------------------------------
(* VectorRepository.cosineSimilarity                                       *)

RECURSIVE SumTo(_, _, _)
\* the loop `for (i = 0; i < a.length; i++) acc += a[i] * b[i]`
SumTo(a, b, i) == IF i = 0 THEN 0 ELSE SumTo(a, b, i - 1) + a[i] * b[i]

\* The largest finite number, scaled to the model's integers: a sum of products
\* above it is Infinity.
MaxFinite == 1000000

\* the loop's three accumulators; dotProduct / (Math.sqrt(normA) * Math.sqrt(normB))
\* with IEEE Infinity: sqrt(Infinity) = Infinity, 0 * Infinity = NaN,
\* x / NaN = NaN, Infinity / Infinity = NaN, finite / Infinity = 0
cosineSimilarity(a, b) ==
  IF Len(a) # Len(b) THEN RInt(0)
  ELSE LET dotProduct == SumTo(a, b, Len(a))
           normA == SumTo(a, a, Len(a))
           normB == SumTo(b, b, Len(b))
           infA == normA > MaxFinite
           infB == normB > MaxFinite
       IN  IF ~infA /\ ~infB
           THEN LET denominator == ISqrt(normA) * ISqrt(normB)
                IN  IF denominator = 0 THEN RInt(0) ELSE Rat(dotProduct, denominator)
           ELSE IF (infA /\ normB = 0) \/ (infB /\ normA = 0) THEN NaN
           ELSE IF Abs(dotProduct) > MaxFinite THEN NaN
           ELSE RInt(0)

-----------------------------------------------------------------------------
(* The SQL of VectorRepository.findSimilar.  decision_events.timestamp is  *)
(* DEFAULT NOW() at insertion, so events are in timestamp order and        *)
(* ORDER BY de.timestamp DESC is descending event_id.  Rows of one event   *)
(* (one per joined override) share a timestamp; they are taken in table    *)
(* order.                                                                   *)

ScanCap == 100
DefaultLimit == 10
DefaultMinSimilarity == <<7, 10>>

Take(s, n) == SubSeq(s, 1, IF n < Len(s) THEN n ELSE Len(s))

\* WHERE dv.tenant_id = $1 [AND dv.workflow_name = ..] [AND dv.policy_version_id = ..]
\*   [AND dv.outcome = ANY(..)]; a NULL column matches no supplied filter.
Conditions(dv, tenantId, options) ==
  /\ dv.tenant_id = tenantId
  /\ (options.workflowName # None => dv.workflow_name = options.workflowName)
  /\ (options.policyVersionId # None => dv.policy_version_id = options.policyVersionId)
  /\ ((options.outcomeFilter # None /\ options.outcomeFilter[1] # {})
        => (dv.outcome # None /\ dv.outcome[1] \in options.outcomeFilter[1]))

JoinedRow(de, dv, reason) ==
  [event_id |-> de.event_id, timestamp |-> de.timestamp, outcome |-> de.outcome,
   confidence |-> de.confidence, policy_version_id |-> de.policy_version_id,
   was_overridden |-> dv.was_overridden, embedding |-> dv.embedding,
   override_reason |-> reason]

\* dv JOIN de LEFT JOIN oe: one row per override of the event, one row with a
\* NULL reason when the event has none.
RowsOfVector(E, O, dv) ==
  LET de == E[dv.event_id]
      oes == SelectSeq(O, LAMBDA oe : oe.original_event_id = dv.event_id)
  IN  IF oes = <<>> THEN <<JoinedRow(de, dv, None)>>
      ELSE [k \in 1..Len(oes) |-> JoinedRow(de, dv, Some(oes[k].reason))]

RECURSIVE RowsOfVectors(_, _, _, _)
RowsOfVectors(E, O, dvs, i) ==
  IF i > Len(dvs) THEN <<>>
  ELSE RowsOfVector(E, O, dvs[i]) \o RowsOfVectors(E, O, dvs, i + 1)

RECURSIVE RowsBetween(_, _, _, _, _, _, _)
\* the joined rows of events hi, hi-1, .., lo (most recent first); the range is
\* halved, not walked, to keep the evaluation shallow
RowsBetween(E, V, O, tenantId, options, lo, hi) ==
  IF lo > hi THEN <<>>
  ELSE IF lo = hi
  THEN LET dvs == SelectSeq(V, LAMBDA dv :
                    dv.event_id = lo /\ Conditions(dv, tenantId, options))
       IN  RowsOfVectors(E, O, dvs, 1)
  ELSE LET mid == (lo + hi) \div 2
       IN  RowsBetween(E, V, O, tenantId, options, mid + 1, hi) \o
           RowsBetween(E, V, O, tenantId, options, lo, mid)

\* ... ORDER BY de.timestamp DESC LIMIT 100
QueryRows(E, V, O, tenantId, options) ==
  Take(RowsBetween(E, V, O, tenantId, options, 1, Len(E)), ScanCap)

-----------------------------------------------------------------------------
(* The in-application part of findSimilar: map, filter, sort, slice.       *)

\* `x || d` on an optional integer: undefined and 0 are falsy.
OrInt(x, d) == IF x = None \/ x[1] = 0 THEN d ELSE x[1]
\* `x || d` on an optional number held as a rational.
OrNum(x, d) == IF x = None \/ x[1][1] = 0 THEN d ELSE x[1]

Case(row, queryEmbedding) ==
  [event_id |-> row.event_id, timestamp |-> row.timestamp,
   similarity_score |-> cosineSimilarity(queryEmbedding, row.embedding),
   outcome |-> row.outcome, confidence |-> row.confidence,
   was_overridden |-> row.was_overridden, override_reason |-> row.override_reason,
   policy_version_id |-> row.policy_version_id]

\* a sort that is not stable: elements of an equal score come out reversed
SortedPositionUnstable(s, k) ==
  1 + Cardinality({m \in 1..Len(s) :
        \/ RLess(s[k].similarity_score, s[m].similarity_score)
        \/ (m > k /\ s[m].similarity_score = s[k].similarity_score)})

\* Array.prototype.sort((a, b) => b.similarity_score - a.similarity_score) is
\* stable: element k lands after every element of a greater score and after the
\* earlier elements of an equal score.
SortedPosition(s, k) ==
  1 + Cardinality({m \in 1..Len(s) :
        \/ RLess(s[k].similarity_score, s[m].similarity_score)
        \/ (m < k /\ s[m].similarity_score = s[k].similarity_score)})

SortDesc(s) ==
  LET position == [k \in 1..Len(s) |-> SortedPosition(s, k)]
  IN  [p \in 1..Len(s) |-> s[CHOOSE k \in 1..Len(s) : position[k] = p]]

\* Array.prototype.slice(0, end), end an integer
Slice0(s, end) ==
  IF end >= 0 THEN Take(s, end)
  ELSE Take(s, IF Len(s) + end > 0 THEN Len(s) + end ELSE 0)

findSimilarOn(E, V, O, tenantId, queryEmbedding, options) ==
  LET limit == OrInt(options.limit, DefaultLimit)
      minSimilarity == OrNum(options.minSimilarity, DefaultMinSimilarity)
      rows == QueryRows(E, V, O, tenantId, options)
      mapped == [k \in 1..Len(rows) |-> Case(rows[k], queryEmbedding)]
      kept == SelectSeq(mapped, LAMBDA item : RLeq(minSimilarity, item.similarity_score))
  IN  Slice0(SortDesc(kept), limit)

findSimilar(tenantId, queryEmbedding, options) ==
  findSimilarOn(events, vectors, overrides, tenantId, queryEmbedding, options)

-----------------------------------------------------------------------------
(* POST /similarity/query: the aggregate statistics of the response.       *)

RECURSIVE SumConfidence(_, _)
\* similarCases.reduce((sum, c) => sum + (c.confidence || 0), 0)
SumConfidence(cases, n) ==
  IF n = 0 THEN RInt(0)
  ELSE RAdd(SumConfidence(cases, n - 1),
            IF cases[n].confidence = None THEN RInt(0) ELSE cases[n].confidence[1])

RECURSIVE OutcomeDistributionAll(_, _)
\* the reduce without the `if (c.outcome)` guard: a missing outcome is counted
\* under the key "undefined"
OutcomeDistributionAll(cases, n) ==
  IF n = 0 THEN [l \in {} |-> 0]
  ELSE LET dist == OutcomeDistributionAll(cases, n - 1)
           key == IF cases[n].outcome = None THEN "undefined" ELSE cases[n].outcome[1]
       IN  [l \in DOMAIN dist \cup {key} |->
              IF l = key THEN (IF l \in DOMAIN dist THEN dist[l] ELSE 0) + 1
              ELSE dist[l]]

RECURSIVE OutcomeDistribution(_, _)
\* reduce over the cases: if (c.outcome) dist[c.outcome] = (dist[c.outcome] || 0) + 1
OutcomeDistribution(cases, n) ==
  IF n = 0 THEN [l \in {} |-> 0]
  ELSE LET dist == OutcomeDistribution(cases, n - 1)
           c == cases[n]
       IN  IF c.outcome = None THEN dist
           ELSE [l \in DOMAIN dist \cup {c.outcome[1]} |->
                   IF l = c.outcome[1]
                   THEN (IF l \in DOMAIN dist THEN dist[l] ELSE 0) + 1
                   ELSE dist[l]]

\* the score without its base term
AlignmentScoreNoBase(overrideRate, avgConfidence) ==
  RMax(RInt(0), RMin(RInt(1),
    RAdd(RMul(RSub(RInt(1), RDiv(overrideRate, RInt(100))), <<5, 10>>),
         RMul(avgConfidence, <<3, 10>>))))

OverrideWeight == <<5, 10>>
ConfidenceWeight == <<3, 10>>
BaseScore == <<2, 10>>

AlignmentScore(overrideRate, avgConfidence) ==
  RMax(RInt(0), RMin(RInt(1),
    RAdd(RAdd(RMul(RSub(RInt(1), RDiv(overrideRate, RInt(100))), OverrideWeight),
              RMul(avgConfidence, ConfidenceWeight)),
         BaseScore)))

\* the aggregate dividing by totalFound itself: 0 / 0 for an empty list
AggregateUnguarded(similarCases) ==
  LET totalFound == Len(similarCases)
      avgConfidence == IF totalFound = 0 THEN NaN
                       ELSE RDiv(SumConfidence(similarCases, totalFound), RInt(totalFound))
      overrideCount == Len(SelectSeq(similarCases, LAMBDA c : c.was_overridden))
      overrideRate == IF totalFound = 0 THEN NaN
                      ELSE RMul(RDiv(RInt(overrideCount), RInt(totalFound)), RInt(100))
  IN  [status |-> 200, route |-> "similarity",
       cases |-> similarCases,
       total_found |-> totalFound,
       avg_confidence |-> avgConfidence,
       override_rate |-> overrideRate,
       outcome_distribution |-> OutcomeDistribution(similarCases, totalFound),
       precedent_alignment_score |->
         IF totalFound = 0 THEN NaN ELSE AlignmentScore(overrideRate, avgConfidence)]

Aggregate(similarCases) ==
  LET totalFound == Len(similarCases)
      n == IF totalFound = 0 THEN 1 ELSE totalFound
      avgConfidence == RDiv(SumConfidence(similarCases, totalFound), RInt(n))
      overrideCount == Len(SelectSeq(similarCases, LAMBDA c : c.was_overridden))
      overrideRate == RMul(RDiv(RInt(overrideCount), RInt(n)), RInt(100))
  IN  [status |-> 200, route |-> "similarity",
       cases |-> similarCases,
       total_found |-> totalFound,
       avg_confidence |-> avgConfidence,
       override_rate |-> overrideRate,
       outcome_distribution |-> OutcomeDistribution(similarCases, totalFound),
       precedent_alignment_score |-> AlignmentScore(overrideRate, avgConfidence)]

-----------------------------------------------------------------------------
(* The tables.  Only the columns the engine reads are kept.                *)

ValidOutcomes == {"approved", "rejected", "escalated", "pending", "error"}
ValidEventTypes ==
  {"step_started", "step_completed", "decision_made", "override", "policy_used", "escalation"}
\* a workflow name longer than the column's VARCHAR(255)
LongName == "name_over_255_chars"

\* CHECK constraints of decision_events on the columns an insert supplies
EventRowOk(row) ==
  /\ row.event_type \in ValidEventTypes
  /\ (row.outcome # None => row.outcome[1] \in ValidOutcomes)
  /\ (row.confidence # None =>
        RLeq(RInt(0), row.confidence[1]) /\ RLeq(row.confidence[1], RInt(1)))

\* EventRepository.createEvent: INSERT .. RETURNING *; event_id and timestamp are
\* column defaults (a fresh id, NOW()).
NewEvent(E, tenantId, row) ==
  [event_id |-> Len(E) + 1, tenant_id |-> tenantId, timestamp |-> Len(E) + 1,
   event_type |-> row.event_type, outcome |-> row.outcome,
   confidence |-> row.confidence, policy_version_id |-> row.policy_version_id]

\* column constraints of decision_vectors on the values storeVector supplies:
\* event_id REFERENCES decision_events, workflow_name VARCHAR(255)
VectorRowOk(E, eventId, metadata) ==
  /\ eventId \in 1..Len(E)
  /\ metadata.workflow_name # Some(LongName)

\* VectorRepository.storeVector: a plain INSERT; was_overridden takes its DEFAULT FALSE
NewVector(eventId, tenantId, embedding, metadata) ==
  [event_id |-> eventId, tenant_id |-> tenantId, embedding |-> embedding,
   workflow_name |-> metadata.workflow_name, outcome |-> metadata.outcome,
   policy_version_id |-> metadata.policy_version_id, was_overridden |-> FALSE]

\* the trigger written as a toggle: SET was_overridden = NOT was_overridden
MarkEventToggled(V, eventId) ==
  [k \in 1..Len(V) |->
     IF V[k].event_id = eventId
     THEN [V[k] EXCEPT !.was_overridden = ~V[k].was_overridden] ELSE V[k]]

\* trigger mark_event_overridden, AFTER INSERT ON override_events
MarkEventOverridden(V, eventId) ==
  [k \in 1..Len(V) |->
     IF V[k].event_id = eventId THEN [V[k] EXCEPT !.was_overridden = TRUE] ELSE V[k]]

Error500 == [status |-> 500, route |-> "error"]
Error400 == [status |-> 400, route |-> "error"]

-----------------------------------------------------------------------------
(* POST /events.  body = [event_type, outcome, confidence, policy_version_id, *)
(* workflow_name, text]; text stands for the input/output/reasoning the      *)
(* embedding is derived from and is modelled by the vector the backend       *)
(* returns for it.                                                           *)

\* eventRepo.createEvent, then the response for a non-decision event
PostEventCreate(tenantId, body) ==
  /\ IF ~EventRowOk(body)
     THEN /\ response' = Error500
          /\ UNCHANGED <<events, posts>>
     ELSE LET event == NewEvent(events, tenantId, body)
          IN  /\ events' = Append(events, event)
              /\ IF body.event_type = "decision_made"
                 THEN /\ posts' = posts \cup
                           {[event_id |-> event.event_id, tenantId |-> tenantId,
                             body |-> body, pc |-> "embed", embedding |-> None]}
                      /\ response' = None
                 ELSE /\ posts' = posts
                      /\ response' = [status |-> 200, route |-> "events",
                                      event_id |-> event.event_id]
  /\ UNCHANGED <<vectors, overrides, imports>>

\* embeddingService.generateEmbedding; the backend call returns (up) or raises
PostEventEmbed(r, up) ==
  /\ r \in posts /\ r.pc = "embed"
  /\ IF ~up
     THEN /\ posts' = posts \ {r}
          /\ response' = Error500
     ELSE /\ posts' = (posts \ {r}) \cup
                        {[r EXCEPT !.pc = "store", !.embedding = Some(r.body.text)]}
          /\ response' = None
  /\ UNCHANGED <<events, vectors, overrides, imports>>

\* vectorRepo.storeVector, then res.json(event)
PostEventStore(r) ==
  /\ r \in posts /\ r.pc = "store"
  /\ posts' = posts \ {r}
  /\ LET metadata == [workflow_name |-> r.body.workflow_name,
                      outcome |-> r.body.outcome,
                      policy_version_id |-> r.body.policy_version_id]
     IN  IF VectorRowOk(events, r.event_id, metadata)
         THEN /\ vectors' = Append(vectors,
                    NewVector(r.event_id, r.tenantId, r.embedding[1], metadata))
              /\ response' = [status |-> 200, route |-> "events",
                              event_id |-> r.event_id]
         ELSE /\ vectors' = vectors
              /\ response' = Error500
  /\ UNCHANGED <<events, overrides, imports>>

-----------------------------------------------------------------------------
(* POST /overrides: OverrideRepository.createOverride.  The SELECT and the  *)
(* INSERT are one step: events are never deleted between them.  The INSERT  *)
(* fires mark_event_overridden in the same statement.                       *)

\* the error response of POST /overrides (the request is kept for reference)
OverrideError(body) ==
  [status |-> 500, route |-> "error", request |-> "overrides",
   original_event_id |-> body.original_event_id]

\* createOverride over a table with UNIQUE (original_event_id): the INSERT of a
\* second override for an event raises
PostOverrideOnce(tenantId, body) ==
  /\ IF \/ body.original_event_id \notin 1..Len(events)
        \/ \E k \in 1..Len(overrides) :
             overrides[k].original_event_id = body.original_event_id
     THEN /\ response' = OverrideError(body)
          /\ UNCHANGED <<overrides, vectors>>
     ELSE /\ overrides' = Append(overrides,
                 [tenant_id |-> tenantId,
                  original_event_id |-> body.original_event_id,
                  reason |-> body.reason])
          /\ vectors' = MarkEventOverridden(vectors, body.original_event_id)
          /\ response' = [status |-> 200, route |-> "overrides",
                          original_event_id |-> body.original_event_id]
  /\ UNCHANGED <<events, posts, imports>>

PostOverride(tenantId, body) ==
  /\ IF body.original_event_id \notin 1..Len(events)
     THEN /\ response' = OverrideError(body)
          /\ UNCHANGED <<overrides, vectors>>
     ELSE /\ overrides' = Append(overrides,
                 [tenant_id |-> tenantId,
                  original_event_id |-> body.original_event_id,
                  reason |-> body.reason])
          /\ vectors' = MarkEventOverridden(vectors, body.original_event_id)
          /\ response' = [status |-> 200, route |-> "overrides",
                          original_event_id |-> body.original_event_id]
  /\ UNCHANGED <<events, posts, imports>>

-----------------------------------------------------------------------------
(* The embedding providers.  A remote call ends in one of the replies      *)
(* below; a text is modelled by the vector a well-formed reply holds for   *)
(* it.  The result of embed is [kind, value]: "raise" (the promise         *)
(* rejects), "undefined" (it resolves to undefined or null) or "value" (it *)
(* resolves to the vector value, possibly empty).  The result of           *)
(* embedBatch is alike, its value a list whose element is <<v>> for a      *)
(* vector v and <<>> for an undefined or null element.                     *)
(* The openai client library is not part of the repository: it is taken to *)
(* throw on a connection failure, on a non-2xx status and on a body it     *)
(* cannot parse, as its documentation states.                              *)

Replies ==
  { "network_error",      \* no HTTP response: fetch rejects
    "status_error_json",  \* non-2xx status, JSON error object as body
    "status_error_text",  \* non-2xx status, body that is not JSON
    "ok_not_json",        \* 2xx status, body that is not JSON
    "ok_no_field",        \* 2xx status, JSON object without the expected list
    "ok_empty",           \* 2xx status, the expected list is empty
    "ok_short",           \* 2xx status, one vector fewer than texts sent
    "ok_no_embedding",    \* 2xx status, list elements without a vector
    "ok" }                \* 2xx status, well-formed body
FailedReplies == Replies \ {"ok"}

Providers == {"openai", "cohere", "custom", "none"}
RemoteProviders == {"openai", "cohere", "custom"}

\* NullEmbeddingProvider.dimensions (1536 unless configured)
NullDimensions == 2

Raised == [kind |-> "raise", value |-> <<>>]
Undefined == [kind |-> "undefined", value |-> <<>>]
Value(v) == [kind |-> "value", value |-> v]

\* the reply body cannot be parsed or there is no reply: fetch / response.json()
\* reject
Unreadable(reply) == reply \in {"network_error", "status_error_text", "ok_not_json"}

\* OpenAIEmbeddingProvider.embed: response.data[0].embedding
OpenAIEmbed(reply, text) ==
  IF Unreadable(reply) \/ reply = "status_error_json" THEN Raised
  ELSE IF reply \in {"ok_no_field", "ok_empty", "ok_short"} THEN Raised
  ELSE IF reply = "ok_no_embedding" THEN Undefined
  ELSE Value(text)

\* OpenAIEmbeddingProvider.embedBatch: response.data.map(d => d.embedding)
OpenAIEmbedBatch(reply, texts) ==
  IF Unreadable(reply) \/ reply = "status_error_json" THEN Raised
  ELSE IF reply = "ok_no_field" THEN Raised
  ELSE IF reply = "ok_empty" THEN Value(<<>>)
  ELSE IF reply = "ok_short" THEN Value([k \in 1..(Len(texts) - 1) |-> Some(texts[k])])
  ELSE IF reply = "ok_no_embedding" THEN Value([k \in 1..Len(texts) |-> None])
  ELSE Value([k \in 1..Len(texts) |-> Some(texts[k])])

\* CohereEmbeddingProvider.embed: data.embeddings[0], no check of response.ok
CohereEmbed(reply, text) ==
  IF Unreadable(reply) THEN Raised
  ELSE IF reply \in {"status_error_json", "ok_no_field"} THEN Raised
  ELSE IF reply \in {"ok_empty", "ok_short", "ok_no_embedding"} THEN Undefined
  ELSE Value(text)

\* CohereEmbeddingProvider.embedBatch: data.embeddings, no check of response.ok
CohereEmbedBatch(reply, texts) ==
  IF Unreadable(reply) THEN Raised
  ELSE IF reply \in {"status_error_json", "ok_no_field"} THEN Undefined
  ELSE IF reply = "ok_empty" THEN Value(<<>>)
  ELSE IF reply = "ok_short" THEN Value([k \in 1..(Len(texts) - 1) |-> Some(texts[k])])
  ELSE IF reply = "ok_no_embedding" THEN Value([k \in 1..Len(texts) |-> None])
  ELSE Value([k \in 1..Len(texts) |-> Some(texts[k])])

\* CustomEmbeddingProvider.embed:
\* data.embedding || data.embeddings?.[0] || data.vector || []
CustomEmbed(reply, text) ==
  IF Unreadable(reply) THEN Raised
  ELSE IF reply = "ok" THEN Value(text)
  ELSE Value(<<>>)

\* CustomEmbeddingProvider.embedBatch: data.embeddings || data.vectors || []
CustomEmbedBatch(reply, texts) ==
  IF Unreadable(reply) THEN Raised
  ELSE IF reply = "ok" THEN Value([k \in 1..Len(texts) |-> Some(texts[k])])
  ELSE IF reply = "ok_short" THEN Value([k \in 1..(Len(texts) - 1) |-> Some(texts[k])])
  ELSE IF reply = "ok_no_embedding" THEN Value([k \in 1..Len(texts) |-> None])
  ELSE Value(<<>>)

\* The custom provider on a parsed reply body.  data = [embedding, embeddings,
\* vector, vectors], each field <<>> when the body lacks it (or holds null) and
\* <<value>> otherwise; a list of vectors holds <<v>> for a vector v and <<>>
\* for a null element.  An empty array is truthy, so `||` stops at it.

\* embed reading data.vector before the other fields
CustomReadEmbedVectorFirst(data) ==
  IF data.vector # None THEN Value(data.vector[1])
  ELSE IF data.embedding # None THEN Value(data.embedding[1])
  ELSE IF /\ data.embeddings # None
          /\ Len(data.embeddings[1]) >= 1
          /\ data.embeddings[1][1] # None
  THEN Value(data.embeddings[1][1][1])
  ELSE Value(<<>>)

\* data.embedding || data.embeddings?.[0] || data.vector || []
CustomReadEmbed(data) ==
  IF data.embedding # None THEN Value(data.embedding[1])
  ELSE IF /\ data.embeddings # None
          /\ Len(data.embeddings[1]) >= 1
          /\ data.embeddings[1][1] # None
  THEN Value(data.embeddings[1][1][1])
  ELSE IF data.vector # None THEN Value(data.vector[1])
  ELSE Value(<<>>)

\* data.embeddings || data.vectors || []
CustomReadEmbedBatch(data) ==
  IF data.embeddings # None THEN Value(data.embeddings[1])
  ELSE IF data.vectors # None THEN Value(data.vectors[1])
  ELSE Value(<<>>)

\* NullEmbeddingProvider: new Array(dimensions).fill(0), no remote call
NullEmbed(text) == Value([k \in 1..NullDimensions |-> 0])
NullEmbedBatch(texts) ==
  Value([k \in 1..Len(texts) |-> Some([d \in 1..NullDimensions |-> 0])])

\* provider.embed(text)
Embed(provider, reply, text) ==
  IF provider = "openai" THEN OpenAIEmbed(reply, text)
  ELSE IF provider = "cohere" THEN CohereEmbed(reply, text)
  ELSE IF provider = "custom" THEN CustomEmbed(reply, text)
  ELSE NullEmbed(text)

\* provider.embedBatch(texts)
EmbedBatch(provider, reply, texts) ==
  IF provider = "openai" THEN OpenAIEmbedBatch(reply, texts)
  ELSE IF provider = "cohere" THEN CohereEmbedBatch(reply, texts)
  ELSE IF provider = "custom" THEN CustomEmbedBatch(reply, texts)
  ELSE NullEmbedBatch(texts)

-----------------------------------------------------------------------------
(* POST /similarity/query.  query = [text, limit, min_similarity,           *)
(* workflow_name, outcome_filter, policy_version_id].                       *)

QueryOptions(query) ==
  [limit |-> query.limit, minSimilarity |-> query.min_similarity,
   workflowName |-> query.workflow_name, outcomeFilter |-> query.outcome_filter,
   policyVersionId |-> query.policy_version_id]

\* the handler writing an audit row for each request it serves
SimilarityQueryLogged(tenantId, query, got) ==
  LET failure == [status |-> 500, route |-> "error", request |-> "similarity",
                  tenantId |-> tenantId, query |-> query, embedding |-> got.kind]
  IN  /\ response' =
           IF got.kind # "value" THEN failure
           ELSE Aggregate(findSimilar(tenantId, got.value, QueryOptions(query))) @@
                [tenantId |-> tenantId, query |-> query]
      /\ events' = Append(events,
           NewEvent(events, tenantId,
                    [event_type |-> "policy_used", outcome |-> None,
                     confidence |-> None, policy_version_id |-> None]))
      /\ UNCHANGED <<vectors, overrides, posts, imports>>

\* the handler given the outcome `got` of generateEmbedding: a rejected call and
\* an exception inside findSimilar (reading .length of an undefined query vector
\* when a row is compared) end in the catch block
SimilarityQueryWith(tenantId, query, got) ==
  LET failure == [status |-> 500, route |-> "error", request |-> "similarity",
                  tenantId |-> tenantId, query |-> query, embedding |-> got.kind]
      options == QueryOptions(query)
  IN  /\ response' =
           IF got.kind = "raise" THEN failure
           ELSE IF got.kind = "undefined"
           THEN (IF QueryRows(events, vectors, overrides, tenantId, options) = <<>>
                 THEN Aggregate(<<>>) @@ [tenantId |-> tenantId, query |-> query]
                 ELSE failure)
           ELSE Aggregate(findSimilar(tenantId, got.value, options)) @@
                [tenantId |-> tenantId, query |-> query]
      /\ UNCHANGED <<events, vectors, overrides, posts, imports>>

\* the backend call for the query text returns its vector (up) or raises
SimilarityQuery(tenantId, query, up) ==
  SimilarityQueryWith(tenantId, query, IF up THEN Value(query.text) ELSE Raised)

-----------------------------------------------------------------------------
(* POST /decisions/batch.  body = [decisions, generate_embeddings];         *)
(* a decision = [outcome, confidence, workflow_name, embedding, text].      *)

BATCH_SIZE == 50
MaxBatch == 1000

\* The locals of one request.  decisions is req.body.decisions (None when it is
\* not an array); embedCalls counts the generateBatch calls made and embedErrors
\* is what console.error logged (the chunk offset i of each failed call).
IdleImport ==
  [pc |-> "idle", tenantId |-> "", decisions |-> None, generate |-> TRUE,
   i |-> 0, j |-> 0, embeddings |-> None, pending |-> None,
   results |-> None, embedCalls |-> 0, embedErrors |-> <<>>]

Decisions(rec) == rec.decisions[1]

\* decisions.slice(i, i + BATCH_SIZE)
Batch(rec) ==
  SubSeq(Decisions(rec), rec.i + 1,
         IF rec.i + BATCH_SIZE < Len(Decisions(rec))
         THEN rec.i + BATCH_SIZE ELSE Len(Decisions(rec)))

\* a response that turns into an error envelope when an item failed
ImportResponseStrict(results) ==
  IF results.failed > 0
  THEN [status |-> 500, route |-> "error", success |-> FALSE,
        imported |-> results.imported, failed |-> results.failed,
        errors |-> Take(results.errors, 10)]
  ELSE [status |-> 200, route |-> "batch", success |-> TRUE,
        imported |-> results.imported, failed |-> results.failed,
        errors |-> Take(results.errors, 10)]

\* res.json({success, imported, failed, errors: errors.slice(0, 10), message})
ImportResponse(results) ==
  [status |-> 200, route |-> "batch", success |-> TRUE,
   imported |-> results.imported, failed |-> results.failed,
   errors |-> Take(results.errors, 10)]

\* BatchStart with the size check written `>=`: a list of exactly MaxBatch is rejected
BatchStartOffByOne(id, tenantId, body) ==
  LET rec == [IdleImport EXCEPT
                !.tenantId = tenantId,
                !.decisions = body.decisions,
                !.generate = (IF body.generate_embeddings = None THEN TRUE
                              ELSE body.generate_embeddings[1])]
  IN  /\ imports[id].pc = "idle"
      /\ IF body.decisions = None \/ Len(body.decisions[1]) = 0
            \/ Len(body.decisions[1]) >= MaxBatch
         THEN /\ response' = Error400
              /\ imports' = [imports EXCEPT ![id] = [rec EXCEPT !.pc = "rejected"]]
         ELSE /\ response' = None
              /\ imports' = [imports EXCEPT ![id] = [rec EXCEPT
                   !.pc = "chunk",
                   !.results = Some([imported |-> 0, failed |-> 0, errors |-> <<>>])]]
      /\ UNCHANGED <<events, vectors, overrides, posts>>

\* destructuring of req.body, validation, and the results object
BatchStart(id, tenantId, body) ==
  LET rec == [IdleImport EXCEPT
                !.tenantId = tenantId,
                !.decisions = body.decisions,
                !.generate = (IF body.generate_embeddings = None THEN TRUE
                              ELSE body.generate_embeddings[1])]
  IN  /\ imports[id].pc = "idle"
      /\ IF body.decisions = None \/ Len(body.decisions[1]) = 0
         THEN /\ response' = Error400
              /\ imports' = [imports EXCEPT ![id] = [rec EXCEPT !.pc = "rejected"]]
         ELSE IF Len(body.decisions[1]) > MaxBatch
         THEN /\ response' = Error400
              /\ imports' = [imports EXCEPT ![id] = [rec EXCEPT !.pc = "rejected"]]
         ELSE /\ response' = None
              /\ imports' = [imports EXCEPT ![id] = [rec EXCEPT
                   !.pc = "chunk",
                   !.results = Some([imported |-> 0, failed |-> 0, errors |-> <<>>])]]
      /\ UNCHANGED <<events, vectors, overrides, posts>>

\* BatchChunk without the inner try/catch: a failed generateBatch ends the request
\* in the outer catch
BatchChunkAbort(id, up) ==
  LET rec == imports[id]
      batch == Batch(rec)
  IN  /\ rec.pc = "chunk"
      /\ (~rec.generate => up)
      /\ IF rec.generate /\ ~up
         THEN /\ imports' = [imports EXCEPT ![id] =
                   [rec EXCEPT !.pc = "done", !.embedCalls = @ + 1,
                               !.embedErrors = Append(@, rec.i)]]
              /\ response' = Error500
         ELSE /\ imports' = [imports EXCEPT ![id] =
                   [rec EXCEPT
                      !.pc = "create", !.j = 0,
                      !.embedCalls = IF rec.generate THEN @ + 1 ELSE @,
                      !.embeddings = IF rec.generate
                                     THEN Some([k \in 1..Len(batch) |-> Some(batch[k].text)])
                                     ELSE None]]
              /\ response' = None
      /\ UNCHANGED <<events, vectors, overrides, posts>>

\* head of the chunk loop: the slice, and generateBatch when requested, whose
\* outcome is `got`: a rejection is caught and logged, anything else is assigned
\* to embeddings (an undefined result reads as no embeddings)
BatchChunkWith(id, got) ==
  LET rec == imports[id]
  IN  /\ rec.pc = "chunk"
      /\ imports' = [imports EXCEPT ![id] =
           [rec EXCEPT
              !.pc = "create", !.j = 0,
              !.embedCalls = IF rec.generate THEN @ + 1 ELSE @,
              !.embedErrors = IF rec.generate /\ got.kind = "raise"
                              THEN Append(@, rec.i) ELSE @,
              !.embeddings = IF rec.generate /\ got.kind = "value"
                             THEN Some(got.value) ELSE None]]
      /\ response' = None
      /\ UNCHANGED <<events, vectors, overrides, posts>>

\* the chunk head calling generateBatch again after a rejection
BatchChunkRetry(id, up) ==
  LET rec == imports[id]
      batch == Batch(rec)
  IN  /\ rec.pc = "chunk"
      /\ (~rec.generate => up)
      /\ IF rec.generate /\ ~up
         THEN /\ imports' = [imports EXCEPT ![id] =
                   [rec EXCEPT !.embedCalls = @ + 1,
                               !.embedErrors = Append(@, rec.i)]]
              /\ response' = None
              /\ UNCHANGED <<events, vectors, overrides, posts>>
         ELSE BatchChunkWith(id, Value([k \in 1..Len(batch) |-> Some(batch[k].text)]))

\* the chunk head when the backend call returns one vector per text (up) or raises
BatchChunk(id, up) ==
  LET batch == Batch(imports[id])
  IN  /\ imports[id].pc = "chunk"
      /\ (~imports[id].generate => up)
      /\ BatchChunkWith(id, IF up THEN Value([k \in 1..Len(batch) |-> Some(batch[k].text)])
                               ELSE Raised)

\* the loop bookkeeping after item i + j: j++, then i += BATCH_SIZE, then the response
Advance(rec, results) ==
  IF rec.j + 1 < Len(Batch(rec))
  THEN [rec EXCEPT !.pc = "create", !.j = @ + 1, !.pending = None,
                   !.results = Some(results)]
  ELSE IF rec.i + BATCH_SIZE < Len(Decisions(rec))
  THEN [rec EXCEPT !.pc = "chunk", !.i = @ + BATCH_SIZE, !.j = 0, !.pending = None,
                   !.embeddings = None, !.results = Some(results)]
  ELSE [rec EXCEPT !.pc = "done", !.pending = None, !.results = Some(results)]

AfterItem(id, rec, results) ==
  LET next == Advance(rec, results)
  IN  /\ imports' = [imports EXCEPT ![id] = next]
      /\ response' = IF next.pc = "done" THEN ImportResponse(results) ELSE None

\* the catch block without results.failed++
FailedUncounted(rec, kind) ==
  [rec.results[1] EXCEPT
     !.errors = Append(@, [index |-> rec.i + rec.j, message |-> kind])]

\* the catch block tagging the error with the index in the chunk
FailedChunkIndex(rec, kind) ==
  [rec.results[1] EXCEPT
     !.failed = @ + 1,
     !.errors = Append(@, [index |-> rec.j, message |-> kind])]

\* the per-item catch block
Failed(rec, kind) ==
  [rec.results[1] EXCEPT
     !.failed = @ + 1,
     !.errors = Append(@, [index |-> rec.i + rec.j, message |-> kind])]

Imported(rec) == [rec.results[1] EXCEPT !.imported = @ + 1]

\* the item step with the two sources of the vector tried in the other order
BatchItemCreateSuppliedFirst(id) ==
  LET rec == imports[id]
      decision == Decisions(rec)[rec.i + rec.j + 1]
      row == [event_type |-> "decision_made", outcome |-> decision.outcome,
              confidence |-> decision.confidence, policy_version_id |-> None]
      generated == /\ rec.embeddings # None
                   /\ rec.j + 1 <= Len(rec.embeddings[1])
                   /\ rec.embeddings[1][rec.j + 1] # None
      first == decision.embedding
      second == IF generated THEN rec.embeddings[1][rec.j + 1] ELSE None
  IN  /\ rec.pc = "create"
      /\ IF ~EventRowOk(row)
         THEN /\ AfterItem(id, rec, Failed(rec, "createEvent"))
              /\ events' = events
         ELSE LET event == NewEvent(events, rec.tenantId, row)
              IN  /\ events' = Append(events, event)
                  /\ IF first # None
                     THEN /\ imports' = [imports EXCEPT ![id] = [rec EXCEPT
                                !.pc = "store",
                                !.pending = Some([event_id |-> event.event_id,
                                                  embedding |-> first[1]])]]
                          /\ response' = None
                     ELSE IF second # None
                     THEN /\ imports' = [imports EXCEPT ![id] = [rec EXCEPT
                                !.pc = "store",
                                !.pending = Some([event_id |-> event.event_id,
                                                  embedding |-> second[1]])]]
                          /\ response' = None
                     ELSE AfterItem(id, rec, Imported(rec))
      /\ UNCHANGED <<vectors, overrides, posts>>

\* eventRepo.createEvent for item i + j, and the choice of its vector:
\* `embeddings && embeddings[j]`, else `decision.embedding`, else none
BatchItemCreate(id) ==
  LET rec == imports[id]
      decision == Decisions(rec)[rec.i + rec.j + 1]
      row == [event_type |-> "decision_made", outcome |-> decision.outcome,
              confidence |-> decision.confidence, policy_version_id |-> None]
      generated == /\ rec.embeddings # None
                   /\ rec.j + 1 <= Len(rec.embeddings[1])
                   /\ rec.embeddings[1][rec.j + 1] # None
      first == IF generated THEN rec.embeddings[1][rec.j + 1] ELSE None
      second == decision.embedding
  IN  /\ rec.pc = "create"
      /\ IF ~EventRowOk(row)
         THEN /\ AfterItem(id, rec, Failed(rec, "createEvent"))
              /\ events' = events
         ELSE LET event == NewEvent(events, rec.tenantId, row)
              IN  /\ events' = Append(events, event)
                  /\ IF first # None
                     THEN /\ imports' = [imports EXCEPT ![id] = [rec EXCEPT
                                !.pc = "store",
                                !.pending = Some([event_id |-> event.event_id,
                                                  embedding |-> first[1]])]]
                          /\ response' = None
                     ELSE IF second # None
                     THEN /\ imports' = [imports EXCEPT ![id] = [rec EXCEPT
                                !.pc = "store",
                                !.pending = Some([event_id |-> event.event_id,
                                                  embedding |-> second[1]])]]
                          /\ response' = None
                     ELSE AfterItem(id, rec, Imported(rec))
      /\ UNCHANGED <<vectors, overrides, posts>>

\* the store attaching the vector to the newest event of the table instead of
\* the event the item's createEvent returned
BatchItemStoreLatest(id) ==
  LET rec == imports[id]
      decision == Decisions(rec)[rec.i + rec.j + 1]
      metadata == [workflow_name |-> decision.workflow_name,
                   outcome |-> decision.outcome, policy_version_id |-> None]
  IN  /\ rec.pc = "store"
      /\ IF VectorRowOk(events, Len(events), metadata)
         THEN /\ vectors' = Append(vectors,
                    NewVector(Len(events), rec.tenantId,
                              rec.pending[1].embedding, metadata))
              /\ AfterItem(id, rec, Imported(rec))
         ELSE /\ vectors' = vectors
              /\ AfterItem(id, rec, Failed(rec, "storeVector"))
      /\ UNCHANGED <<events, overrides, posts>>

\* vectorRepo.storeVector for item i + j, then results.imported++
BatchItemStore(id) ==
  LET rec == imports[id]
      decision == Decisions(rec)[rec.i + rec.j + 1]
      metadata == [workflow_name |-> decision.workflow_name,
                   outcome |-> decision.outcome, policy_version_id |-> None]
  IN  /\ rec.pc = "store"
      /\ IF VectorRowOk(events, rec.pending[1].event_id, metadata)
         THEN /\ vectors' = Append(vectors,
                    NewVector(rec.pending[1].event_id, rec.tenantId,
                              rec.pending[1].embedding, metadata))
              /\ AfterItem(id, rec, Imported(rec))
         ELSE /\ vectors' = vectors
              /\ AfterItem(id, rec, Failed(rec, "storeVector"))
      /\ UNCHANGED <<events, overrides, posts>>

-----------------------------------------------------------------------------
(* The API server under concurrent requests: small inputs, every handler.  *)

\* rows the requests drawn may add to decision_events and override_events together
MaxRows == 3

Tenants == {"t1", "t2"}
ImportIds == {"b1"}

EventBody(type, outcome, confidence, workflow, text) ==
  [event_type |-> type, outcome |-> outcome, confidence |-> confidence,
   policy_version_id |-> None, workflow_name |-> workflow, text |-> text]

\* <<tenant, body>> of the POST /events requests drawn
PostInputs ==
  { <<"t1", EventBody("decision_made", Some("approved"), Some(<<9, 10>>), Some("wfA"), <<1, 0>>)>>,
    <<"t2", EventBody("decision_made", Some("rejected"), None, None, <<1, 0>>)>>,
    <<"t1", EventBody("decision_made", None, Some(<<1, 2>>), Some(LongName), <<3, 4>>)>>,
    <<"t2", EventBody("step_started", Some("bogus"), None, None, <<0, 0>>)>> }

Query(text, limit, minSimilarity, workflow) ==
  [text |-> text, limit |-> limit, min_similarity |-> minSimilarity,
   workflow_name |-> workflow, outcome_filter |-> None, policy_version_id |-> None]

QueryInputs ==
  { Query(<<1, 0>>, None, None, None),
    Query(<<1, 0>>, Some(0), Some(<<1, 2>>), Some("wfA")) }

Init ==
  /\ events = <<>>
  /\ vectors = <<>>
  /\ overrides = <<>>
  /\ posts = {}
  /\ imports = [id \in ImportIds |-> IdleImport]
  /\ response = None

Rows == Len(events) + Len(overrides)

Next ==
  \/ \E p \in PostInputs : Rows < MaxRows /\ PostEventCreate(p[1], p[2])
  \/ \E r \in posts, up \in BOOLEAN : PostEventEmbed(r, up)
  \/ \E r \in posts : PostEventStore(r)
  \/ \E t \in Tenants, e \in 1..MaxRows :
       /\ Rows < MaxRows
       /\ PostOverride(t, [original_event_id |-> e, reason |-> "wrong"])
  \/ \E t \in Tenants, q \in QueryInputs, up \in BOOLEAN : SimilarityQuery(t, q, up)

Spec == Init /\ [][Next]_vars

-----------------------------------------------------------------------------
(* One batch import alone, over request bodies that reach the validation   *)
(* limits, several chunks, and items that fail.                             *)

\* items of the final, partial chunk of the two-chunk imports drawn
TailLen == 10

Decision(outcome, confidence, workflow, embedding, text) ==
  [outcome |-> outcome, confidence |-> confidence, workflow_name |-> workflow,
   embedding |-> embedding, text |-> text]

GoodItem == Decision(Some("approved"), Some(<<1, 2>>), Some("wfA"), None, <<1, 0>>)
PrecomputedItem == Decision(Some("rejected"), None, None, Some(<<0, 1>>), <<1, 0>>)
BadOutcomeItem == Decision(Some("bogus"), None, None, None, <<1, 0>>)
LongNameItem == Decision(Some("approved"), None, Some(LongName), Some(<<0, 1>>), <<1, 0>>)

\* item k (1-based) of a list of the given pattern
ItemAt(pattern, k) ==
  IF pattern = "bad" THEN BadOutcomeItem
  ELSE IF pattern = "good" \/ (pattern = "late" /\ k <= BATCH_SIZE) THEN GoodItem
  ELSE IF k % 7 = 3 THEN BadOutcomeItem
  ELSE IF k % 7 = 5 THEN LongNameItem
  ELSE IF k % 7 = 0 THEN PrecomputedItem
  ELSE GoodItem

ImportBody(n, pattern, generate) ==
  [decisions |-> Some([k \in 1..n |-> ItemAt(pattern, k)]),
   generate_embeddings |-> generate]

ImportInputs ==
  { [decisions |-> None, generate_embeddings |-> None],
    ImportBody(0, "good", None),
    ImportBody(1, "good", None),
    ImportBody(BATCH_SIZE + TailLen, "good", Some(TRUE)),
    ImportBody(BATCH_SIZE + TailLen, "mixed", None),
    ImportBody(BATCH_SIZE + TailLen, "mixed", Some(FALSE)),
    ImportBody(BATCH_SIZE + TailLen, "late", Some(FALSE)),
    ImportBody(2, "bad", Some(TRUE)),
    ImportBody(MaxBatch, "mixed", Some(FALSE)),
    ImportBody(MaxBatch + 1, "good", Some(FALSE)),
    ImportBody(MaxBatch + 200, "mixed", None) }

NextBatch ==
  \/ \E id \in ImportIds, t \in Tenants, b \in ImportInputs : BatchStart(id, t, b)
  \/ \E id \in ImportIds, up \in BOOLEAN : BatchChunk(id, up)
  \/ \E id \in ImportIds : BatchItemCreate(id)
  \/ \E id \in ImportIds : BatchItemStore(id)

SpecBatch == Init /\ [][NextBatch]_vars

-----------------------------------------------------------------------------
(* Properties of the find-similar response.                                 *)

IsSimilarityResponse == response # None /\ response.route = "similarity"

NonIncreasing(cases) ==
  \A k \in 1..(Len(cases) - 1) :
    RLeq(cases[k + 1].similarity_score, cases[k].similarity_score)

\* C1: for any caller-supplied limit >= 0 (0 included) and minSimilarity in [0,1]
\* (0 included), the returned list has at most `limit` cases, holds no case whose
\* similarity is below minSimilarity, and is sorted non-increasing by similarity.
C1_LimitMinSorted ==
  IsSimilarityResponse =>
    /\ (response.query.limit # None => Len(response.cases) <= response.query.limit[1])
    /\ (response.query.min_similarity # None =>
          \A k \in 1..Len(response.cases) :
            RLeq(response.query.min_similarity[1], response.cases[k].similarity_score))
    /\ NonIncreasing(response.cases)

OwnVectors(tenantId) == SelectSeq(vectors, LAMBDA dv : dv.tenant_id = tenantId)
OwnOverrides(tenantId) == SelectSeq(overrides, LAMBDA oe : oe.tenant_id = tenantId)

\* every case of a find-similar response comes from a vector record of the
\* querying tenant
CasesFromOwnVectors ==
  IsSimilarityResponse =>
    \A k \in 1..Len(response.cases) :
      /\ \E n \in 1..Len(vectors) : vectors[n].event_id = response.cases[k].event_id
      /\ \A n \in 1..Len(vectors) :
           vectors[n].event_id = response.cases[k].event_id
             => vectors[n].tenant_id = response.tenantId

\* C3: every case of a find-similar response comes from a vector record of the
\* querying tenant, and the aggregate statistics of the response are those the
\* query yields on that tenant's records alone (its vector records and its
\* override records).
C3_TenantIsolation ==
  IsSimilarityResponse =>
    LET own == Aggregate(findSimilarOn(events, OwnVectors(response.tenantId),
                                       OwnOverrides(response.tenantId),
                                       response.tenantId, response.query.text,
                                       QueryOptions(response.query)))
    IN  /\ CasesFromOwnVectors
        /\ response.total_found = own.total_found
        /\ response.avg_confidence = own.avg_confidence
        /\ response.override_rate = own.override_rate
        /\ response.outcome_distribution = own.outcome_distribution
        /\ response.precedent_alignment_score = own.precedent_alignment_score

\* the vector records the query's WHERE clause selects
MatchingVectors ==
  {n \in 1..Len(vectors) :
     Conditions(vectors[n], response.tenantId, QueryOptions(response.query))}

\* C19: a find-similar request for which no vector record matches the tenant
\* and the filters is not failed by that (it fails only when its embedding call
\* raised) and answers an empty list with total_found = 0, avg_confidence = 0,
\* override_rate = 0, an empty outcome_distribution and
\* precedent_alignment_score = 0.7.
C19_EmptyResult ==
  (response # None /\ "query" \in DOMAIN response /\ MatchingVectors = {}) =>
    IF response.route = "similarity"
    THEN /\ response.status = 200
         /\ response.cases = <<>>
         /\ response.total_found = 0
         /\ response.avg_confidence = RInt(0)
         /\ response.override_rate = RInt(0)
         /\ DOMAIN response.outcome_distribution = {}
         /\ response.precedent_alignment_score = <<7, 10>>
    ELSE response.embedding = "raise"

\* an empty answer to a tenant whose filter matches none of its records, while
\* the store holds vector records
C19_Witness ==
  /\ IsSimilarityResponse
  /\ MatchingVectors = {}
  /\ \E n \in 1..Len(vectors) : vectors[n].tenant_id = response.tenantId
  /\ response.total_found = 0

\* override records of the given tenant that reference the event
OwnOverridesOf(tenantId, e) ==
  {k \in 1..Len(overrides) :
     overrides[k].original_event_id = e /\ overrides[k].tenant_id = tenantId}

\* C26: overrides stay within their tenant: a vector record is marked overridden
\* only by an override request of its own tenant, and a find-similar response
\* shows a case as overridden, or with an override reason, only when the
\* querying tenant itself has overridden that event.
C26_OverrideWithinTenant ==
  /\ \A n \in 1..Len(vectors) :
       vectors[n].was_overridden =>
         OwnOverridesOf(vectors[n].tenant_id, vectors[n].event_id) # {}
  /\ IsSimilarityResponse =>
       \A k \in 1..Len(response.cases) :
         (response.cases[k].was_overridden \/ response.cases[k].override_reason # None)
           => OwnOverridesOf(response.tenantId, response.cases[k].event_id) # {}

VectorsOf(e) == {n \in 1..Len(vectors) : vectors[n].event_id = e}

\* C28: online ingestion of a decision_made event is all or nothing: a request
\* answered with success has its event and exactly one vector record for it,
\* and a request answered with an error has left no event; so every
\* decision_made event whose request is no longer in flight has exactly one
\* vector record.
C28_IngestAllOrNothing ==
  /\ (response # None /\ response.route = "events"
        /\ events[response.event_id].event_type = "decision_made")
       => Cardinality(VectorsOf(response.event_id)) = 1
  /\ \A e \in 1..Len(events) :
       (events[e].event_type = "decision_made" /\ \A r \in posts : r.event_id # e)
         => Cardinality(VectorsOf(e)) = 1

\* C10: once no request is in flight, a vector record has was_overridden = TRUE
\* if and only if some override record references its event.
C10_OverriddenIffOverride ==
  posts = {} =>
    \A n \in 1..Len(vectors) :
      vectors[n].was_overridden <=>
        \E k \in 1..Len(overrides) : overrides[k].original_event_id = vectors[n].event_id

-----------------------------------------------------------------------------
(* Properties of the batch import.                                          *)

\* C6: an import whose decisions are not a list, are empty, or number more than
\* 1000 is rejected before any work (status 400, no embedBatch call, no event, no
\* vector, no counts); every other import, one of exactly 1000 items included, is
\* accepted.
C6_RejectedBeforeWork ==
  \A id \in ImportIds :
    LET rec == imports[id]
    IN  rec.pc # "idle" =>
          /\ rec.pc = "rejected" <=>
               (rec.decisions = None \/ Len(rec.decisions[1]) = 0
                  \/ Len(rec.decisions[1]) > 1000)
          /\ rec.pc = "rejected" =>
               /\ response = Error400
               /\ rec.embedCalls = 0 /\ rec.results = None
               /\ events = <<>> /\ vectors = <<>>

\* a list of more than 1000 decisions was rejected
C6_Witness ==
  \E id \in ImportIds :
    /\ imports[id].pc = "rejected"
    /\ imports[id].decisions # None
    /\ Len(imports[id].decisions[1]) > 1000

ItemValid(d) ==
  EventRowOk([event_type |-> "decision_made", outcome |-> d.outcome,
              confidence |-> d.confidence])

\* C7: a failed item never stops the later ones: at every point of an accepted
\* import imported + failed is the number of items gone through, each failure has
\* its own error entry in item order, and at the end imported + failed =
\* |decisions| with one event per item whose event creation succeeded.
C7_EveryItemCounted ==
  \A id \in ImportIds :
    LET rec == imports[id]
    IN  rec.results # None =>
          LET r == rec.results[1]
              through == IF rec.pc = "done" THEN Len(Decisions(rec)) ELSE rec.i + rec.j
          IN  /\ r.imported + r.failed = through
              /\ Len(r.errors) = r.failed
              /\ \A k \in 1..Len(r.errors) :
                   /\ r.errors[k].index < through
                   /\ k > 1 => r.errors[k - 1].index < r.errors[k].index
              /\ rec.pc = "done" =>
                   Len(events) =
                     Cardinality({m \in 1..Len(Decisions(rec)) : ItemValid(Decisions(rec)[m])})

\* an import ended with items imported after one of its items had failed
C7_Witness ==
  \E id \in ImportIds :
    /\ imports[id].pc = "done"
    /\ imports[id].results[1].failed >= 2
    /\ imports[id].results[1].imported >
         imports[id].results[1].errors[1].index

\* the event of item m (1-based) when only this import creates events
EventOfItem(ds, m) == Cardinality({k \in 1..m : ItemValid(ds[k])})

\* C8: with generateEmbeddings, a chunk whose embedBatch call raised is still
\* imported in full: each of its items whose event can be created has its event,
\* no generated vector is stored for it (only a caller-supplied one), and it is
\* counted as imported when it supplies no vector of its own; items of the other
\* chunks get their generated vector; an import of items that cannot fail ends
\* with imported = |decisions|, failed = 0.
C8_EmbedFailureDegrades ==
  \A id \in ImportIds :
    LET rec == imports[id]
    IN  (rec.pc = "done" /\ rec.generate) =>
          LET ds == Decisions(rec)
              r == rec.results[1]
              FailedChunk(m) ==
                \E k \in 1..Len(rec.embedErrors) :
                  rec.embedErrors[k] = ((m - 1) \div 50) * 50
          IN  /\ response.status = 200
              /\ \A m \in 1..Len(ds) :
                   ItemValid(ds[m]) =>
                     LET e == EventOfItem(ds, m)
                     IN  /\ e <= Len(events)
                         /\ FailedChunk(m) =>
                              /\ \A n \in 1..Len(vectors) :
                                   vectors[n].event_id = e =>
                                     /\ ds[m].embedding # None
                                     /\ vectors[n].embedding = ds[m].embedding[1]
                              /\ ds[m].embedding = None =>
                                   \A k \in 1..Len(r.errors) : r.errors[k].index # m - 1
                         /\ (~FailedChunk(m) /\ ds[m].workflow_name # Some(LongName)) =>
                              \E n \in 1..Len(vectors) :
                                /\ vectors[n].event_id = e
                                /\ vectors[n].embedding = ds[m].text
              /\ (\A m \in 1..Len(ds) : ds[m] = GoodItem) =>
                   /\ r.imported = Len(ds) /\ r.failed = 0
                   /\ Len(vectors) =
                        Cardinality({m \in 1..Len(ds) : ~FailedChunk(m)})

\* two chunks, embedBatch raised for the second only: all imported, none failed,
\* vectors for the first chunk only
C8_Witness ==
  \E id \in ImportIds :
    /\ imports[id].pc = "done" /\ imports[id].generate
    /\ imports[id].embedErrors = <<50>>
    /\ Len(Decisions(imports[id])) > 50
    /\ imports[id].results[1].imported = Len(Decisions(imports[id]))
    /\ imports[id].results[1].failed = 0
    /\ Len(vectors) = 50

\* the chunk of item m (1-based) had its embedBatch call fail
ChunkFailed(rec, m) ==
  \E k \in 1..Len(rec.embedErrors) :
    rec.embedErrors[k] = ((m - 1) \div BATCH_SIZE) * BATCH_SIZE

\* item m of a finished import fails: its event cannot be created, or a vector
\* is stored for it (generated or supplied) and the store fails
ItemFails(rec, m) ==
  LET d == Decisions(rec)[m]
  IN  \/ ~ItemValid(d)
      \/ /\ (rec.generate /\ ~ChunkFailed(rec, m)) \/ d.embedding # None
         /\ d.workflow_name = Some(LongName)

FailingIndices(rec) == {m - 1 : m \in {x \in 1..Len(Decisions(rec)) : ItemFails(rec, x)}}

\* C16: the response of a finished import counts every failed item in `failed`
\* and returns min(10, failed) error messages: those of the first failing items,
\* in processing order, each tagged with the item's index in the whole request.
C16_FirstTenErrors ==
  \A id \in ImportIds :
    LET rec == imports[id]
    IN  (rec.pc = "done" /\ response # None /\ response.route = "batch") =>
          LET F == FailingIndices(rec)
              errs == response.errors
              returned == {errs[k].index : k \in 1..Len(errs)}
          IN  /\ response.failed = Cardinality(F)
              /\ Len(errs) = IF response.failed < 10 THEN response.failed ELSE 10
              /\ \A k \in 1..Len(errs) :
                   /\ errs[k].index \in F
                   /\ k > 1 => errs[k - 1].index < errs[k].index
                   /\ errs[k].message =
                        IF ItemValid(Decisions(rec)[errs[k].index + 1])
                        THEN "storeVector" ELSE "createEvent"
              /\ \A x \in F \ returned : \A y \in returned : y < x

\* more than ten items failed, in both chunks; ten messages came back
C16_Witness ==
  \E id \in ImportIds :
    /\ imports[id].pc = "done" /\ response # None /\ response.route = "batch"
    /\ response.failed > 10
    /\ Len(response.errors) = 10
    /\ \E x \in FailingIndices(imports[id]) : x >= BATCH_SIZE

\* chunks of BATCH_SIZE items (the last one possibly smaller) cover n items
ChunkCount(n) == (n + BATCH_SIZE - 1) \div BATCH_SIZE

\* C21: an import goes through its chunks of 50 (the last one possibly smaller)
\* in order: embedBatch for a chunk is called only when every item of the
\* earlier chunks is finished; it is called once per chunk with
\* generateEmbeddings (a failed call is not repeated, so at most
\* ceil(|decisions| / 50) calls, and exactly that many at the end) and never
\* without generateEmbeddings.
C21_ChunksInOrder ==
  /\ [](\A id \in ImportIds :
          LET rec == imports[id]
          IN  rec.results # None =>
                LET n == Len(Decisions(rec))
                    r == rec.results[1]
                    begun == rec.i \div 50 + (IF rec.pc = "chunk" THEN 0 ELSE 1)
                IN  /\ rec.i % 50 = 0 /\ rec.i < n
                    /\ Len(Batch(rec)) = (IF n - rec.i < 50 THEN n - rec.i ELSE 50)
                    /\ rec.pc = "chunk" => (rec.j = 0 /\ r.imported + r.failed = rec.i)
                    /\ rec.pc \in {"create", "store"} =>
                         (rec.j < Len(Batch(rec)) /\ r.imported + r.failed = rec.i + rec.j)
                    /\ rec.embedCalls = (IF rec.generate THEN begun ELSE 0)
                    /\ rec.embedCalls <= ChunkCount(n)
                    /\ Len(rec.embedErrors) <= rec.embedCalls
                    /\ rec.pc = "done" =>
                         /\ begun = ChunkCount(n)
                         /\ r.imported + r.failed = n)
  /\ [][\A id \in ImportIds :
          imports'[id].embedCalls # imports[id].embedCalls =>
            /\ imports[id].pc = "chunk" /\ imports'[id].pc = "create"
            /\ imports'[id].embedCalls = imports[id].embedCalls + 1
            /\ imports'[id].i = imports[id].i]_vars

\* a two-chunk import with generateEmbeddings ended after two embedBatch calls,
\* the first of which had raised
C21_Witness ==
  \E id \in ImportIds :
    /\ imports[id].pc = "done" /\ imports[id].generate
    /\ Len(Decisions(imports[id])) = BATCH_SIZE + TailLen
    /\ imports[id].embedCalls = 2
    /\ imports[id].embedErrors = <<0>>

\* C27: when an import has ended, the decision events it created are as many as
\* its `imported` count: an item counted as failed has left no event.
C27_FailedLeavesNoEvent ==
  \A id \in ImportIds :
    imports[id].pc = "done" => Len(events) = imports[id].results[1].imported

Accepted(rec) == rec.pc \in {"chunk", "create", "store"}

\* one import whose steps are always eventually taken: every await of the
\* handler settles
SpecBatchFair == SpecBatch /\ WF_vars(NextBatch)

\* C17: an accepted import always reaches its end, and its end is the success
\* response with the imported and failed counts, whatever failed on the way.
C17_AlwaysSuccessResponse ==
  /\ [](\A id \in ImportIds :
          imports[id].pc = "done" =>
            /\ response.status = 200 /\ response.route = "batch" /\ response.success
            /\ response.imported = imports[id].results[1].imported
            /\ response.failed = imports[id].results[1].failed
            /\ response.imported + response.failed = Len(Decisions(imports[id])))
  /\ \A id \in ImportIds : (Accepted(imports[id]) ~> imports[id].pc = "done")

\* an import ended with every item failed and every embedBatch call failed
C17_Witness ==
  \E id \in ImportIds :
    /\ imports[id].pc = "done"
    /\ response.status = 200
    /\ response.imported = 0
    /\ response.failed = Len(Decisions(imports[id]))
    /\ imports[id].embedCalls = Len(imports[id].embedErrors)
    /\ imports[id].embedCalls >= 1

-----------------------------------------------------------------------------
(* The scorer over every small precedent set: the store holds up to        *)
(* MaxCases completed decisions of one tenant, all matching the query      *)
(* text, with every mix of confidence, outcome and override; the only      *)
(* step is a find-similar request.                                         *)

MaxCases == 3

CaseKinds ==
  [confidence : {None, Some(<<1, 2>>), Some(<<1, 1>>)},
   outcome : {None, Some("approved"), Some("rejected")},
   overridden : BOOLEAN]

\* the tables after, for each kind in order, a completed POST /events of tenant
\* t1 with text <<1, 0>> and then, if overridden, a completed POST /overrides
ScoreEvents(kinds) ==
  [k \in 1..Len(kinds) |->
     NewEvent(SubSeq(kinds, 1, k - 1), "t1",
              [event_type |-> "decision_made", outcome |-> kinds[k].outcome,
               confidence |-> kinds[k].confidence, policy_version_id |-> None])]

ScoreVectors(kinds) ==
  [k \in 1..Len(kinds) |->
     [NewVector(k, "t1", <<1, 0>>,
                [workflow_name |-> None, outcome |-> kinds[k].outcome,
                 policy_version_id |-> None])
        EXCEPT !.was_overridden = kinds[k].overridden]]

RECURSIVE ScoreOverrides(_, _)
ScoreOverrides(kinds, k) ==
  IF k = 0 THEN <<>>
  ELSE ScoreOverrides(kinds, k - 1) \o
       (IF kinds[k].overridden
        THEN <<[tenant_id |-> "t1", original_event_id |-> k, reason |-> "wrong"]>>
        ELSE <<>>)

InitScore ==
  \E n \in 0..MaxCases : \E kinds \in [1..n -> CaseKinds] :
    /\ events = ScoreEvents(kinds)
    /\ vectors = ScoreVectors(kinds)
    /\ overrides = ScoreOverrides(kinds, n)
    /\ posts = {}
    /\ imports = [id \in ImportIds |-> IdleImport]
    /\ response = None

NextScore ==
  \E up \in BOOLEAN : SimilarityQuery("t1", Query(<<1, 0>>, None, None, None), up)

SpecScore == InitScore /\ [][NextScore]_vars

\* C4: the alignment score of every response lies in [0, 1], and it is exactly
\* 0.7 when the case list is empty.
C4_ScoreRange ==
  IsSimilarityResponse =>
    /\ RLeq(<<0, 1>>, response.precedent_alignment_score)
    /\ RLeq(response.precedent_alignment_score, <<1, 1>>)
    /\ (Len(response.cases) = 0 => response.precedent_alignment_score = <<7, 10>>)

\* a response over an empty case list, scored 0.7
C4_Witness ==
  /\ IsSimilarityResponse
  /\ Len(response.cases) = 0
  /\ response.precedent_alignment_score = <<7, 10>>

RECURSIVE SumOver(_, _)
\* the sum of v * (number of cases whose confidence is v) over the values in S
SumOver(S, cases) ==
  IF S = {} THEN <<0, 1>>
  ELSE LET v == CHOOSE x \in S : TRUE
           count == Cardinality({k \in 1..Len(cases) : cases[k].confidence = Some(v)})
       IN  RAdd(RMul(v, <<count, 1>>), SumOver(S \ {v}, cases))

\* C5: the response equals the reference scorer on its case list: total_found =
\* |cases|; avg_confidence = (sum of confidences, missing as 0) / max(1, |cases|);
\* override_rate = 100 * overridden / max(1, |cases|); outcome_distribution
\* counts the cases of each outcome label and has no entry for a missing
\* outcome; the score is clamp01((1 - rate/100) * 0.5 + avg * 0.3 + 0.2).
C5_ReferenceScorer ==
  IsSimilarityResponse =>
    LET cases == response.cases
        n == IF Len(cases) = 0 THEN 1 ELSE Len(cases)
        present == {cases[k].confidence[1] :
                      k \in {j \in 1..Len(cases) : cases[j].confidence # None}}
        avg == RDiv(SumOver(present, cases), <<n, 1>>)
        overridden == Cardinality({k \in 1..Len(cases) : cases[k].was_overridden})
        rate == Rat(100 * overridden, n)
        labels == {cases[k].outcome[1] :
                     k \in {j \in 1..Len(cases) : cases[j].outcome # None}}
        raw == RAdd(RAdd(RMul(RSub(<<1, 1>>, RDiv(rate, <<100, 1>>)), <<1, 2>>),
                         RMul(avg, <<3, 10>>)), <<1, 5>>)
        clamped == IF RLess(raw, <<0, 1>>) THEN <<0, 1>>
                   ELSE IF RLess(<<1, 1>>, raw) THEN <<1, 1>> ELSE raw
    IN  /\ response.total_found = Len(cases)
        /\ response.avg_confidence = avg
        /\ response.override_rate = rate
        /\ DOMAIN response.outcome_distribution = labels
        /\ \A l \in labels :
             response.outcome_distribution[l] =
               Cardinality({k \in 1..Len(cases) : cases[k].outcome = Some(l)})
        /\ response.precedent_alignment_score = clamped

\* a response over several cases, one overridden, one without confidence and
\* one without outcome
C5_Witness ==
  /\ IsSimilarityResponse
  /\ Len(response.cases) >= 2
  /\ \E k \in 1..Len(response.cases) : response.cases[k].was_overridden
  /\ \E k \in 1..Len(response.cases) : response.cases[k].confidence = None
  /\ \E k \in 1..Len(response.cases) : response.cases[k].outcome = None
  /\ \E k \in 1..Len(response.cases) : response.cases[k].outcome # None

-----------------------------------------------------------------------------
(* The scan window: a store of about ScanCap completed decisions of one    *)
(* tenant, then override and find-similar requests.  Event 1, the oldest,  *)
(* is the only one whose text matches the query; every tenth event is of   *)
(* workflow wfB, the others of wfA.                                        *)

\* decisions stored beyond ScanCap in the largest store drawn
WindowExtra == 10
\* override requests drawn per behaviour
MaxWindowOverrides == 2

WindowBody(k) ==
  EventBody("decision_made", Some("approved"), Some(<<1, 2>>),
            IF k % 10 = 5 THEN Some("wfB") ELSE Some("wfA"),
            IF k = 1 THEN <<1, 0>> ELSE <<0, 1>>)

\* the tables after n completed POST /events of tenant t1, bodies WindowBody(1..n)
WindowEvents(n) ==
  [k \in 1..n |->
     [event_id |-> k, tenant_id |-> "t1", timestamp |-> k,
      event_type |-> "decision_made", outcome |-> WindowBody(k).outcome,
      confidence |-> WindowBody(k).confidence, policy_version_id |-> None]]

WindowVectors(n) ==
  [k \in 1..n |->
     NewVector(k, "t1", WindowBody(k).text,
               [workflow_name |-> WindowBody(k).workflow_name,
                outcome |-> WindowBody(k).outcome, policy_version_id |-> None])]

InitWindow ==
  \E n \in {ScanCap - 1, ScanCap, ScanCap + WindowExtra} :
    /\ events = WindowEvents(n)
    /\ vectors = WindowVectors(n)
    /\ overrides = <<>>
    /\ posts = {}
    /\ imports = [id \in ImportIds |-> IdleImport]
    /\ response = None

WindowQueries ==
  { Query(<<1, 0>>, None, None, None),
    Query(<<1, 0>>, Some(5), Some(<<1, 2>>), Some("wfA")),
    Query(<<1, 0>>, Some(5), None, Some("wfB")) }

NextWindow ==
  \/ \E e \in {1, 2, Len(events)} :
       /\ Len(overrides) < MaxWindowOverrides
       /\ PostOverride("t1", [original_event_id |-> e, reason |-> "wrong"])
  \/ \E q \in WindowQueries, up \in BOOLEAN : SimilarityQuery("t1", q, up)

SpecWindow == InitWindow /\ [][NextWindow]_vars

\* the vector records that satisfy the tenant and every supplied filter
Matching(n) ==
  /\ vectors[n].tenant_id = response.tenantId
  /\ (response.query.workflow_name # None
        => vectors[n].workflow_name = response.query.workflow_name)
  /\ (response.query.policy_version_id # None
        => vectors[n].policy_version_id = response.query.policy_version_id)
  /\ ((response.query.outcome_filter # None /\ response.query.outcome_filter[1] # {})
        => (vectors[n].outcome # None
              /\ vectors[n].outcome[1] \in response.query.outcome_filter[1]))

NewerMatching(n) ==
  Cardinality({m \in 1..Len(vectors) :
                 Matching(m) /\ events[vectors[m].event_id].timestamp
                                  > events[vectors[n].event_id].timestamp})

\* C2: the candidates of a query are the at most 100 most recent vector records
\* that match the tenant and the filters: a returned case has fewer than 100 more
\* recent matching records, and, when the result is not cut by the limit, a
\* matching record that is similar enough and has fewer than 100 more recent
\* matching records is returned.
C2_WindowOfHundred ==
  IsSimilarityResponse =>
    LET limit == IF response.query.limit = None THEN 10 ELSE response.query.limit[1]
        minSimilarity == IF response.query.min_similarity = None THEN <<7, 10>>
                         ELSE response.query.min_similarity[1]
    IN  /\ \A k \in 1..Len(response.cases) :
             \E n \in 1..Len(vectors) :
               /\ vectors[n].event_id = response.cases[k].event_id
               /\ Matching(n)
               /\ NewerMatching(n) < 100
        /\ Len(response.cases) < limit =>
             \A n \in 1..Len(vectors) :
               ( /\ Matching(n)
                 /\ RLeq(minSimilarity,
                         cosineSimilarity(response.query.text, vectors[n].embedding))
                 /\ NewerMatching(n) < 100 )
               => \E k \in 1..Len(response.cases) :
                    response.cases[k].event_id = vectors[n].event_id

-----------------------------------------------------------------------------
(* The repositories called directly (packages/db is a library): any        *)
(* sequence of createEvent, storeVector and createOverride calls.          *)

\* rows the calls drawn may add to the three tables together
MaxRepoRows == 3

\* EventRepository.createEvent
CreateEvent(tenantId, row) ==
  /\ IF EventRowOk(row)
     THEN /\ events' = Append(events, NewEvent(events, tenantId, row))
          /\ response' = [status |-> "resolved", route |-> "createEvent"]
     ELSE /\ events' = events
          /\ response' = [status |-> "rejected", route |-> "createEvent"]
  /\ UNCHANGED <<vectors, overrides, posts, imports>>

\* VectorRepository.storeVector
StoreVector(eventId, tenantId, embedding, metadata) ==
  /\ IF VectorRowOk(events, eventId, metadata)
     THEN /\ vectors' = Append(vectors, NewVector(eventId, tenantId, embedding, metadata))
          /\ response' = [status |-> "resolved", route |-> "storeVector",
                          event_id |-> eventId]
     ELSE /\ vectors' = vectors
          /\ response' = [status |-> "rejected", route |-> "storeVector",
                          event_id |-> eventId]
  /\ UNCHANGED <<events, overrides, posts, imports>>

RepoMetadata ==
  { [workflow_name |-> w, outcome |-> Some("approved"), policy_version_id |-> None] :
      w \in {Some("wfA"), Some(LongName)} }

RepoRows == Len(events) + Len(vectors) + Len(overrides)

NextRepo ==
  \/ \E p \in PostInputs : RepoRows < MaxRepoRows /\ CreateEvent(p[1], p[2])
  \/ \E e \in 1..MaxRepoRows, t \in Tenants, md \in RepoMetadata :
       /\ RepoRows < MaxRepoRows
       /\ StoreVector(e, t, <<1, 0>>, md)
  \/ \E t \in Tenants, e \in 1..MaxRepoRows :
       /\ RepoRows < MaxRepoRows
       /\ PostOverride(t, [original_event_id |-> e, reason |-> "wrong"])

SpecRepo == Init /\ [][NextRepo]_vars

\* C9: storeVector for an event that already has a vector record is rejected and
\* adds nothing, so no two vector records ever share an event_id.
C9_OneVectorPerEvent ==
  /\ \A n, m \in 1..Len(vectors) :
       vectors[n].event_id = vectors[m].event_id => n = m
  /\ (response # None /\ response.route = "storeVector" /\ response.status = "resolved")
       => Cardinality({n \in 1..Len(vectors) :
                         vectors[n].event_id = response.event_id}) = 1

-----------------------------------------------------------------------------
(* Every route together: online ingestion, overrides, queries and two      *)
(* batch imports running concurrently, on one-item request bodies.         *)

\* rows the online requests drawn may add to decision_events and override_events
MaxConcRows == 2

ConcImportIds == {"b1", "b2"}

ConcPost == <<"t1", EventBody("decision_made", Some("approved"), Some(<<9, 10>>), Some("wfA"), <<1, 0>>)>>

\* one decision with a pre-computed embedding; embeddings are generated as well
ConcImportBody ==
  [decisions |-> Some(<<Decision(Some("approved"), Some(<<1, 2>>), Some("wfA"),
                                 Some(<<0, 1>>), <<1, 0>>)>>),
   generate_embeddings |-> Some(TRUE)]

InitConc ==
  /\ events = <<>>
  /\ vectors = <<>>
  /\ overrides = <<>>
  /\ posts = {}
  /\ imports = [id \in ConcImportIds |-> IdleImport]
  /\ response = None

\* rows added by the online requests: events of POST /events, and overrides
ConcRows ==
  Cardinality({k \in 1..Len(events) : events[k].confidence = ConcPost[2].confidence})
    + Len(overrides)

NextConc ==
  \/ ConcRows < MaxConcRows /\ PostEventCreate(ConcPost[1], ConcPost[2])
  \/ \E r \in posts, up \in BOOLEAN : PostEventEmbed(r, up)
  \/ \E r \in posts : PostEventStore(r)
  \/ \E e \in 1..2 :
       /\ ConcRows < MaxConcRows
       /\ PostOverride("t1", [original_event_id |-> e, reason |-> "wrong"])
  \/ SimilarityQuery("t1", Query(<<1, 0>>, None, None, None), TRUE)
  \/ \E id \in ConcImportIds : BatchStart(id, "t1", ConcImportBody)
  \/ \E id \in ConcImportIds, up \in BOOLEAN : BatchChunk(id, up)
  \/ \E id \in ConcImportIds : BatchItemCreate(id)
  \/ \E id \in ConcImportIds : BatchItemStore(id)

SpecConc == InitConc /\ [][NextConc]_vars

\* C11: in every step every stored vector record stays where it is with its
\* event, tenant and embedding, and a was_overridden that is TRUE stays TRUE.
C11_OverriddenMonotone ==
  [][ /\ Len(vectors') >= Len(vectors)
      /\ \A n \in 1..Len(vectors) :
           /\ vectors'[n].event_id = vectors[n].event_id
           /\ vectors'[n].tenant_id = vectors[n].tenant_id
           /\ vectors'[n].embedding = vectors[n].embedding
           /\ (vectors[n].was_overridden => vectors'[n].was_overridden) ]_vars

\* an event overridden twice, its vector record marked, and a batch import finished
C11_Witness ==
  /\ \E n \in 1..Len(vectors) :
       /\ vectors[n].was_overridden
       /\ Cardinality({k \in 1..Len(overrides) :
                         overrides[k].original_event_id = vectors[n].event_id}) >= 2
  /\ \E id \in ConcImportIds : imports[id].pc = "done"

OverridesOf(e) == {k \in 1..Len(overrides) : overrides[k].original_event_id = e}

\* C12: a POST /overrides for an event that already has an override record never
\* ends in an error, and after it every vector record of the event has
\* was_overridden = TRUE.
C12_SecondOverride ==
  response # None =>
    /\ (response.route = "error" /\ "request" \in DOMAIN response
          /\ response.request = "overrides")
          => OverridesOf(response.original_event_id) = {}
    /\ (response.route = "overrides"
          /\ Cardinality(OverridesOf(response.original_event_id)) >= 2)
          => \A n \in 1..Len(vectors) :
               vectors[n].event_id = response.original_event_id
                 => vectors[n].was_overridden

\* the second override of an event that has a vector record has just completed
C12_Witness ==
  /\ response # None /\ response.route = "overrides"
  /\ Cardinality(OverridesOf(response.original_event_id)) = 2
  /\ \E n \in 1..Len(vectors) :
       vectors[n].event_id = response.original_event_id /\ vectors[n].was_overridden

\* no route stores two vector records for one event: each store follows the
\* creation of its own event
RoutesOneVectorPerEvent ==
  \A n, m \in 1..Len(vectors) : vectors[n].event_id = vectors[m].event_id => n = m

-----------------------------------------------------------------------------
(* Which event a vector record is attached to: two imports of different    *)
(* tenants and one online ingestion run concurrently; every decision       *)
(* differs from the others in its confidence (kept by the event) and in    *)
(* its workflow, outcome and embedding (kept by the vector record).        *)

\* items of each import drawn
MaxAttachItems == 2

AttachTenant(id) == IF id = "b1" THEN "t1" ELSE "t2"

\* item k of import id: the second item of an import supplies its embedding
AttachItem(id, k) ==
  Decision(IF k % 2 = 1 THEN Some("approved") ELSE Some("rejected"),
           Some(<<k, IF id = "b1" THEN 7 ELSE 11>>),
           Some(id),
           IF k = 2 THEN Some(<<0, k>>) ELSE None,
           <<k, 0>>)

AttachBody(id) ==
  [decisions |-> Some([k \in 1..MaxAttachItems |-> AttachItem(id, k)]),
   generate_embeddings |-> None]

NextAttach ==
  \/ /\ \A k \in 1..Len(events) : events[k].confidence # ConcPost[2].confidence
     /\ PostEventCreate(ConcPost[1], ConcPost[2])
  \/ \E r \in posts, up \in BOOLEAN : PostEventEmbed(r, up)
  \/ \E r \in posts : PostEventStore(r)
  \/ \E id \in ConcImportIds : BatchStart(id, AttachTenant(id), AttachBody(id))
  \/ \E id \in ConcImportIds, up \in BOOLEAN : BatchChunk(id, up)
  \/ \E id \in ConcImportIds : BatchItemCreate(id)
  \/ \E id \in ConcImportIds : BatchItemStore(id)

SpecAttach == InitConc /\ [][NextAttach]_vars

\* the decisions ingested, each with the embeddings a vector record of it may hold
AttachOrigins ==
  { [tenant_id |-> ConcPost[1], outcome |-> ConcPost[2].outcome,
     confidence |-> ConcPost[2].confidence, workflow_name |-> ConcPost[2].workflow_name,
     embeddings |-> {ConcPost[2].text}] }
  \cup
  { [tenant_id |-> AttachTenant(id), outcome |-> AttachItem(id, k).outcome,
     confidence |-> AttachItem(id, k).confidence,
     workflow_name |-> AttachItem(id, k).workflow_name,
     embeddings |-> {AttachItem(id, k).text} \cup
                    (IF AttachItem(id, k).embedding = None THEN {}
                     ELSE {AttachItem(id, k).embedding[1]})] :
      id \in ConcImportIds, k \in 1..MaxAttachItems }

\* C29: every vector record refers to an existing decision event of its own
\* tenant, and that event is the one created for the decision the vector record
\* was stored for, in an import as in online ingestion: event and vector record
\* carry the data of one and the same decision.
C29_VectorAttachedToOwnEvent ==
  \A n \in 1..Len(vectors) :
    /\ vectors[n].event_id \in 1..Len(events)
    /\ events[vectors[n].event_id].tenant_id = vectors[n].tenant_id
    /\ \E o \in AttachOrigins :
         /\ events[vectors[n].event_id].tenant_id = o.tenant_id
         /\ events[vectors[n].event_id].outcome = o.outcome
         /\ events[vectors[n].event_id].confidence = o.confidence
         /\ vectors[n].tenant_id = o.tenant_id
         /\ vectors[n].outcome = o.outcome
         /\ vectors[n].workflow_name = o.workflow_name
         /\ vectors[n].embedding \in o.embeddings

\* both imports ended, their events interleaved in the table, with vector
\* records of both tenants
C29_Witness ==
  /\ \A id \in ConcImportIds : imports[id].pc = "done"
  /\ Len(events) >= 4
  /\ events[1].tenant_id # events[2].tenant_id
  /\ events[2].tenant_id # events[3].tenant_id
  /\ \E n, m \in 1..Len(vectors) : vectors[n].tenant_id # vectors[m].tenant_id

-----------------------------------------------------------------------------
(* The embedding backends: every provider against every reply of its       *)
(* remote, called directly and through POST /similarity/query, over a      *)
(* store of up to MaxBackendCases decisions of tenant t1.                  *)

MaxBackendCases == 2

BackendKind == [confidence |-> Some(<<1, 2>>), outcome |-> Some("approved"),
                overridden |-> FALSE]

BackendTexts == {<<1, 0>>, <<3, 4>>}

InitBackend ==
  \E n \in 0..MaxBackendCases :
    LET kinds == [k \in 1..n |-> BackendKind]
    IN  /\ events = ScoreEvents(kinds)
        /\ vectors = ScoreVectors(kinds)
        /\ overrides = <<>>
        /\ posts = {}
        /\ imports = [id \in ImportIds |-> IdleImport]
        /\ response = None

\* a direct call of provider.embed; the response variable keeps the call and
\* its result
EmbedCall(provider, reply, text) ==
  /\ response' = [route |-> "embed", provider |-> provider, reply |-> reply,
                  result |-> Embed(provider, reply, text)]
  /\ UNCHANGED <<events, vectors, overrides, posts, imports>>

\* a direct call of provider.embedBatch
EmbedBatchCall(provider, reply, texts) ==
  /\ response' = [route |-> "embedBatch", provider |-> provider, reply |-> reply,
                  result |-> EmbedBatch(provider, reply, texts)]
  /\ UNCHANGED <<events, vectors, overrides, posts, imports>>

\* POST /similarity/query served with the given provider, whose remote gives
\* the given reply; both are kept in the query for reference
SimilarityQueryVia(tenantId, query, provider, reply) ==
  SimilarityQueryWith(tenantId, query @@ [provider |-> provider, reply |-> reply],
                      Embed(provider, reply, query.text))

BackendQueries ==
  { Query(<<1, 0>>, None, None, None), Query(<<1, 0>>, Some(1), Some(<<1, 2>>), None) }

NextBackend ==
  \/ \E pr \in Providers, rp \in Replies, t \in BackendTexts : EmbedCall(pr, rp, t)
  \/ \E pr \in Providers, rp \in Replies, n \in 1..2 :
       EmbedBatchCall(pr, rp, [k \in 1..n |-> <<1, 0>>])
  \/ \E q \in BackendQueries, pr \in Providers, rp \in Replies :
       SimilarityQueryVia("t1", q, pr, rp)

SpecBackend == InitBackend /\ [][NextBackend]_vars

IsQueryOutcome ==
  /\ response # None
  /\ "query" \in DOMAIN response
  /\ "reply" \in DOMAIN response.query

\* C14: a find-similar request whose embedding call failed ends in an error
\* response, never in a list of cases with statistics; and every non-error
\* response is a complete ranked list with its statistics.
C14_NoDegradedResult ==
  IsQueryOutcome =>
    /\ (response.query.provider \in RemoteProviders
          /\ response.query.reply \in FailedReplies)
          => (response.status = 500 /\ response.route = "error")
    /\ response.route = "similarity" =>
          /\ response = Aggregate(response.cases) @@
                         [tenantId |-> response.tenantId, query |-> response.query]
          /\ NonIncreasing(response.cases)

\* C15: a failed remote call of embed or embedBatch (no connection, non-2xx
\* status, malformed or unexpected body), with any remote provider, raises.
C15_FailedCallRaises ==
  (/\ response # None
   /\ response.route \in {"embed", "embedBatch"}
   /\ response.provider \in RemoteProviders
   /\ response.reply \in FailedReplies)
    => response.result.kind = "raise"

-----------------------------------------------------------------------------
(* One single-chunk import against every provider and every reply of its   *)
(* remote: the vector stored for each item.                                *)

\* items of the imports drawn, cut from ChoiceItems
MaxChoiceItems == 3

ChoiceItems == <<GoodItem, PrecomputedItem, LongNameItem, GoodItem, PrecomputedItem>>

ChoiceBodies ==
  { [decisions |-> Some(SubSeq(ChoiceItems, lo, lo + n - 1)), generate_embeddings |-> g] :
      lo \in 1..2, n \in 1..MaxChoiceItems, g \in {None, Some(FALSE)} }

\* the chunk head with generateBatch served by the given provider, whose remote
\* gives the given reply
BatchChunkVia(id, provider, reply) ==
  LET batch == Batch(imports[id])
  IN  /\ imports[id].pc = "chunk"
      /\ BatchChunkWith(id, EmbedBatch(provider, reply,
                                       [k \in 1..Len(batch) |-> batch[k].text]))

NextChoice ==
  \/ \E id \in ImportIds, b \in ChoiceBodies : BatchStart(id, "t1", b)
  \/ \E id \in ImportIds, pr \in Providers, rp \in Replies : BatchChunkVia(id, pr, rp)
  \/ \E id \in ImportIds : BatchItemCreate(id)
  \/ \E id \in ImportIds : BatchItemStore(id)

SpecChoice == Init /\ [][NextChoice]_vars

\* the vector the chunk's embedBatch result holds for item m, if any
GeneratedFor(rec, m) ==
  IF rec.embeddings # None /\ m <= Len(rec.embeddings[1])
  THEN rec.embeddings[1][m] ELSE None

\* C20: in a finished single-chunk import each item whose event was created has
\* the generated vector at its position stored if there is one, else its
\* pre-computed embedding if it supplies one, else no vector and it is counted
\* imported; a chosen vector whose store fails makes the item failed.
C20_VectorChoice ==
  \A id \in ImportIds :
    LET rec == imports[id]
    IN  rec.pc = "done" =>
          LET ds == Decisions(rec)
              r == rec.results[1]
              failedIdx == {r.errors[k].index : k \in 1..Len(r.errors)}
          IN  \A m \in 1..Len(ds) :
                ItemValid(ds[m]) =>
                  LET e == EventOfItem(ds, m)
                      stored == {n \in 1..Len(vectors) : vectors[n].event_id = e}
                      chosen == IF GeneratedFor(rec, m) # None THEN GeneratedFor(rec, m)
                                ELSE ds[m].embedding
                  IN  IF chosen = None
                      THEN stored = {} /\ (m - 1) \notin failedIdx
                      ELSE IF ds[m].workflow_name = Some(LongName)
                      THEN stored = {} /\ (m - 1) \in failedIdx
                      ELSE /\ Cardinality(stored) = 1
                           /\ \A n \in stored : vectors[n].embedding = chosen[1]
                           /\ (m - 1) \notin failedIdx

\* embedBatch returned fewer vectors than the chunk has items: the first item
\* got its generated vector and the last one its pre-computed embedding
C20_Witness ==
  \E id \in ImportIds :
    LET rec == imports[id]
    IN  /\ rec.pc = "done" /\ rec.embeddings # None
        /\ Len(Decisions(rec)) >= 2
        /\ Len(rec.embeddings[1]) = Len(Decisions(rec)) - 1
        /\ rec.embeddings[1][1] # None
        /\ Decisions(rec)[Len(Decisions(rec))].embedding # None
        /\ \E n \in 1..Len(vectors) :
             vectors[n].embedding = Decisions(rec)[Len(Decisions(rec))].embedding[1]
        /\ \E n \in 1..Len(vectors) : vectors[n].embedding = Decisions(rec)[1].text
        /\ rec.results[1].failed = 0

-----------------------------------------------------------------------------
(* Ties in the ranking: a store of up to MaxTieCases decisions of tenant   *)
(* t1 whose embeddings are drawn from three directions, so that several    *)
(* candidates share a similarity; override requests (two overrides of one  *)
(* event give two candidates of one timestamp) and find-similar requests   *)
(* whose limit cuts the list.                                              *)

MaxTieCases == 3
\* override requests drawn per behaviour
MaxTieOverrides == 2

TieEmbeddings == {<<1, 0>>, <<4, 3>>, <<3, 4>>}

\* the tables after n completed POST /events of tenant t1
TieVectors(embeddings) ==
  [k \in 1..Len(embeddings) |->
     NewVector(k, "t1", embeddings[k],
               [workflow_name |-> None, outcome |-> BackendKind.outcome,
                policy_version_id |-> None])]

InitTies ==
  \E n \in 0..MaxTieCases : \E embeddings \in [1..n -> TieEmbeddings] :
    /\ events = ScoreEvents([k \in 1..n |-> BackendKind])
    /\ vectors = TieVectors(embeddings)
    /\ overrides = <<>>
    /\ posts = {}
    /\ imports = [id \in ImportIds |-> IdleImport]
    /\ response = None

TieQueries ==
  { Query(<<1, 0>>, l, Some(<<1, 2>>), None) : l \in {None, Some(1), Some(2), Some(3)} }

NextTies ==
  \/ \E e \in 1..2 :
       /\ Len(overrides) < MaxTieOverrides
       /\ PostOverride("t1", [original_event_id |-> e, reason |-> "wrong"])
  \/ \E t \in Tenants, q \in TieQueries : SimilarityQuery(t, q, TRUE)

SpecTies == InitTies /\ [][NextTies]_vars

\* C22: among candidates of equal similarity the more recent one is ranked
\* first, also across the cut at `limit`: if a case is returned, every candidate
\* of the same similarity and a later timestamp is returned at an earlier
\* position.
C22_TiesMostRecentFirst ==
  IsSimilarityResponse =>
    \A k \in 1..Len(response.cases) : \A n \in 1..Len(vectors) :
      ( /\ vectors[n].tenant_id = response.tenantId
        /\ cosineSimilarity(response.query.text, vectors[n].embedding)
             = response.cases[k].similarity_score
        /\ events[vectors[n].event_id].timestamp > response.cases[k].timestamp )
      => \E m \in 1..(k - 1) : response.cases[m].event_id = vectors[n].event_id

\* the limit cut a group of at least three candidates of one similarity after
\* its second member
C22_Witness ==
  /\ IsSimilarityResponse
  /\ response.query.limit = Some(2)
  /\ Len(response.cases) = 2
  /\ response.cases[1].similarity_score = response.cases[2].similarity_score
  /\ response.cases[1].timestamp > response.cases[2].timestamp
  /\ \E n \in 1..Len(vectors) :
       /\ cosineSimilarity(response.query.text, vectors[n].embedding)
            = response.cases[2].similarity_score
       /\ events[vectors[n].event_id].timestamp < response.cases[2].timestamp

\* C24: a find-similar request is a pure read: the step that answers it leaves
\* the decision events, the vector records (every was_overridden included) and
\* the override records as they were, its cases are what findSimilar yields on
\* that store whatever requests were answered before it, and a request repeated
\* right after itself gets the same answer.
C24_PureRead ==
  /\ [][ (response' # None /\ "query" \in DOMAIN response') =>
           /\ events' = events /\ vectors' = vectors /\ overrides' = overrides
           /\ (/\ response # None /\ "query" \in DOMAIN response
               /\ response.tenantId = response'.tenantId
               /\ response.query = response'.query)
                => response' = response ]_vars
  /\ [](IsSimilarityResponse =>
          response.cases = findSimilar(response.tenantId, response.query.text,
                                       QueryOptions(response.query)))

\* a request answered with several cases, one of them overridden, over a store
\* that also serves the other tenant's requests
C24_Witness ==
  /\ IsSimilarityResponse
  /\ response.tenantId = "t1"
  /\ Len(response.cases) >= 2
  /\ \E k \in 1..Len(response.cases) : response.cases[k].was_overridden
  /\ \E k \in 1..Len(response.cases) : ~response.cases[k].was_overridden

RECURSIVE FirstOverrides(_, _)
\* the first k override records without those that repeat an earlier one's event
FirstOverrides(O, k) ==
  IF k = 0 THEN <<>>
  ELSE IF \E m \in 1..(k - 1) : O[m].original_event_id = O[k].original_event_id
  THEN FirstOverrides(O, k - 1)
  ELSE Append(FirstOverrides(O, k - 1), O[k])

\* C25: a find-similar response holds each stored decision at most once, and its
\* total_found, override_rate and precedent_alignment_score are those the query
\* yields when every overridden event has a single override record: overrides
\* after the first of an event change none of them.
C25_OncePerDecision ==
  IsSimilarityResponse =>
    LET once == Aggregate(findSimilarOn(events, vectors,
                                        FirstOverrides(overrides, Len(overrides)),
                                        response.tenantId, response.query.text,
                                        QueryOptions(response.query)))
    IN  /\ \A k, m \in 1..Len(response.cases) :
             response.cases[k].event_id = response.cases[m].event_id => k = m
        /\ response.total_found = once.total_found
        /\ response.override_rate = once.override_rate
        /\ response.precedent_alignment_score = once.precedent_alignment_score

-----------------------------------------------------------------------------
(* The SDK's wrapAgent: execute of the wrapped agent against the API       *)
(* server, over a store of up to MaxWrapCases decisions of tenant t1.      *)
(* output = [confidence] is what the inner agent returned; options are     *)
(* the WrapAgentOptions, <<>> for a field left out.  One execute is one    *)
(* step: its requests (logStepStart, getSimilarCases, logStepResult) run   *)
(* one after the other and nothing else runs in this specification.        *)

MaxWrapCases == 2

DefaultConfidenceThreshold == <<7, 10>>

\* `x ?? d` on an optional boolean
OrBool(x, d) == IF x = None THEN d ELSE x[1]

\* the base confidence read with `||`: a confidence of 0 counts as missing
BaseConfidenceOr(output) ==
  IF output.confidence = None \/ output.confidence[1][1] = 0 THEN RInt(1)
  ELSE output.confidence[1]

\* (output as any).confidence ?? 1.0
BaseConfidence(output) ==
  IF output.confidence = None THEN RInt(1) ELSE output.confidence[1]

\* the event row of client.logStepStart / client.logStepResult
StepRow(type, outcome, confidence) ==
  [event_type |-> type, outcome |-> outcome, confidence |-> confidence,
   policy_version_id |-> None]

\* execute of the wrapped agent; up: the server's embedding call for the
\* precedent lookup returns.  A request answered with an error makes the
\* client throw and execute reject.
WrapExecute(tenantId, input, output, options, up) ==
  LET enablePrecedentLookup == OrBool(options.enablePrecedentLookup, TRUE)
      confidenceThreshold ==
        IF options.confidenceThreshold = None THEN DefaultConfidenceThreshold
        ELSE options.confidenceThreshold[1]
      autoLogStart == OrBool(options.autoLogStart, TRUE)
      autoLogResult == OrBool(options.autoLogResult, TRUE)
      started == IF autoLogStart
                 THEN Append(events, NewEvent(events, tenantId,
                                              StepRow("step_started", None, None)))
                 ELSE events
      precedentContext ==
        IF enablePrecedentLookup
        THEN Some(Aggregate(findSimilarOn(started, vectors, overrides, tenantId, input,
                    QueryOptions(Query(input, Some(5), None, None)))))
        ELSE None
      baseConfidence == BaseConfidence(output)
      adjustedConfidence ==
        IF precedentContext # None
        THEN RMul(baseConfidence, precedentContext[1].precedent_alignment_score)
        ELSE baseConfidence
      shouldEscalate == RLess(adjustedConfidence, confidenceThreshold)
      resultRow == StepRow("step_completed",
                           Some(IF shouldEscalate THEN "escalated" ELSE "approved"),
                           Some(adjustedConfidence))
      call == [tenantId |-> tenantId, input |-> input, output |-> output,
               options |-> options]
  IN  /\ IF enablePrecedentLookup /\ ~up
         THEN /\ events' = started
              /\ response' = [status |-> "rejected", route |-> "wrap", call |-> call]
         ELSE IF autoLogResult /\ ~EventRowOk(resultRow)
         THEN /\ events' = started
              /\ response' = [status |-> "rejected", route |-> "wrap", call |-> call]
         ELSE /\ events' = IF autoLogResult
                           THEN Append(started, NewEvent(started, tenantId, resultRow))
                           ELSE started
              /\ response' =
                   [status |-> "resolved", route |-> "wrap", call |-> call,
                    confidence |-> adjustedConfidence,
                    logged |-> autoLogResult,
                    precedent |->
                      IF precedentContext # None
                      THEN Some([similar_cases |-> precedentContext[1],
                                 adjusted_confidence |-> adjustedConfidence,
                                 should_escalate |-> shouldEscalate])
                      ELSE None]
      /\ UNCHANGED <<vectors, overrides, posts, imports>>

WrapKinds ==
  [confidence : {None, Some(<<1, 2>>), Some(<<1, 1>>)},
   outcome : {Some("approved")},
   overridden : BOOLEAN]

InitWrap ==
  \E n \in 0..MaxWrapCases : \E kinds \in [1..n -> WrapKinds] :
    /\ events = ScoreEvents(kinds)
    /\ vectors = ScoreVectors(kinds)
    /\ overrides = ScoreOverrides(kinds, n)
    /\ posts = {}
    /\ imports = [id \in ImportIds |-> IdleImport]
    /\ response = None

WrapOutputs ==
  [confidence : {None, Some(<<0, 1>>), Some(<<1, 2>>), Some(<<1, 1>>), Some(<<3, 2>>)}]

WrapOptions ==
  [enablePrecedentLookup : {None, Some(FALSE)},
   confidenceThreshold : {None, Some(<<1, 2>>)},
   autoLogStart : {None, Some(FALSE)},
   autoLogResult : {None, Some(FALSE)}]

\* one execute of the wrapped agent per behaviour
NextWrap ==
  \E output \in WrapOutputs, options \in WrapOptions, up \in BOOLEAN :
    /\ response = None
    /\ WrapExecute("t1", <<1, 0>>, output, options, up)

SpecWrap == InitWrap /\ [][NextWrap]_vars

\* C30: with precedent lookup, a wrapped agent that returns has confidence =
\* base confidence * the alignment score the server answers for its input (the
\* base being 1 when the agent's output has no confidence), which for a base in
\* [0, 1] is at most the base; should_escalate is TRUE exactly when that
\* confidence is below the threshold (0.7 unless set); and the result it logs
\* has that confidence and the outcome escalated in that case, approved
\* otherwise.
C30_AdjustedConfidence ==
  (/\ response # None /\ response.route = "wrap" /\ response.status = "resolved"
   /\ response.call.options.enablePrecedentLookup = None) =>
    LET given == response.call.output.confidence
        base == IF given = None THEN <<1, 1>> ELSE given[1]
        score == Aggregate(findSimilar(response.call.tenantId, response.call.input,
                   QueryOptions(Query(response.call.input, Some(5), None, None)))
                 ).precedent_alignment_score
        threshold == IF response.call.options.confidenceThreshold = None
                     THEN <<7, 10>> ELSE response.call.options.confidenceThreshold[1]
        last == events[Len(events)]
    IN  /\ response.precedent # None
        /\ response.precedent[1].similar_cases.precedent_alignment_score = score
        /\ response.confidence = RMul(base, score)
        /\ response.precedent[1].adjusted_confidence = response.confidence
        /\ (RLeq(<<0, 1>>, base) /\ RLeq(base, <<1, 1>>)) => RLeq(response.confidence, base)
        /\ response.precedent[1].should_escalate <=> RLess(response.confidence, threshold)
        /\ response.logged =>
             /\ last.event_type = "step_completed"
             /\ last.confidence = Some(response.confidence)
             /\ last.outcome = Some(IF response.precedent[1].should_escalate
                                    THEN "escalated" ELSE "approved")

\* an agent sure of itself, escalated because every precedent was overridden
C30_Witness ==
  /\ response # None /\ response.route = "wrap" /\ response.status = "resolved"
  /\ response.call.output.confidence = Some(<<1, 1>>)
  /\ response.precedent # None
  /\ response.precedent[1].similar_cases.total_found = 2
  /\ response.precedent[1].should_escalate
  /\ response.logged
  /\ events[Len(events)].outcome = Some("escalated")

-----------------------------------------------------------------------------
(* The custom HTTP backend against every shape of reply body: each of the  *)
(* four fields absent, empty or filled, the fields holding different       *)
(* vectors so that the field a result was read from can be told.           *)

CustomBodies ==
  [embedding : {None, Some(<<>>), Some(<<1, 0>>)},
   embeddings : {None, Some(<<>>), Some(<<None>>), Some(<<Some(<<0, 1>>)>>),
                 Some(<<Some(<<0, 1>>), Some(<<3, 4>>)>>)},
   vector : {None, Some(<<>>), Some(<<1, 1>>)},
   vectors : {None, Some(<<>>), Some(<<Some(<<2, 2>>), Some(<<4, 3>>)>>)}]

\* provider.embed of the custom provider, the remote answering with body data
CustomEmbedCall(data) ==
  /\ response' = [route |-> "customEmbed", data |-> data,
                  result |-> CustomReadEmbed(data)]
  /\ UNCHANGED <<events, vectors, overrides, posts, imports>>

\* provider.embedBatch of the custom provider
CustomEmbedBatchCall(data) ==
  /\ response' = [route |-> "customEmbedBatch", data |-> data,
                  result |-> CustomReadEmbedBatch(data)]
  /\ UNCHANGED <<events, vectors, overrides, posts, imports>>

NextCustom ==
  \/ \E data \in CustomBodies : CustomEmbedCall(data)
  \/ \E data \in CustomBodies : CustomEmbedBatchCall(data)

SpecCustom == Init /\ [][NextCustom]_vars

\* the first element of the body's `embeddings`, if it has one
FirstOfEmbeddings(data) ==
  IF data.embeddings # None /\ Len(data.embeddings[1]) >= 1
  THEN data.embeddings[1][1] ELSE None

\* C23: the custom backend returns, for embed, the body's `embedding` if
\* present, else the first element of `embeddings` if present, else `vector`
\* if present, else an empty vector; for embedBatch, `embeddings` if present,
\* else `vectors` if present, else an empty list; whatever lower-priority
\* fields the body also holds.
C23_ProbeOrder ==
  /\ (response # None /\ response.route = "customEmbed") =>
       LET data == response.data
       IN  /\ response.result.kind = "value"
           /\ data.embedding # None => response.result.value = data.embedding[1]
           /\ (data.embedding = None /\ FirstOfEmbeddings(data) # None)
                => response.result.value = FirstOfEmbeddings(data)[1]
           /\ (data.embedding = None /\ FirstOfEmbeddings(data) = None
                 /\ data.vector # None)
                => response.result.value = data.vector[1]
           /\ (data.embedding = None /\ FirstOfEmbeddings(data) = None
                 /\ data.vector = None)
                => response.result.value = <<>>
  /\ (response # None /\ response.route = "customEmbedBatch") =>
       LET data == response.data
       IN  /\ response.result.kind = "value"
           /\ data.embeddings # None => response.result.value = data.embeddings[1]
           /\ (data.embeddings = None /\ data.vectors # None)
                => response.result.value = data.vectors[1]
           /\ (data.embeddings = None /\ data.vectors = None)
                => response.result.value = <<>>

\* embed read the first element of `embeddings` from a body that has no
\* `embedding` and also holds a `vector`
C23_Witness ==
  /\ response # None /\ response.route = "customEmbed"
  /\ response.data.embedding = None
  /\ response.data.vector = Some(<<1, 1>>)
  /\ response.result = Value(<<0, 1>>)

-----------------------------------------------------------------------------
(* Cosine similarity on degenerate vectors: one stored decision of tenant  *)
(* t1 with any of the vectors below as its embedding (a pre-computed       *)
(* embedding of a batch import), queried with any of them.                 *)

\* a component whose square is above MaxFinite
HugeComponent == 2000

CosineVectors ==
  { <<>>, <<0>>, <<1>>, <<HugeComponent>>,
    <<0, 0>>, <<1, 0>>, <<0, 1>>, <<3, 4>>, <<HugeComponent, 0>>, <<0, HugeComponent>>,
    <<0, 0, 0>>, <<1, 0, 0>> }

InitCosine ==
  \E b \in CosineVectors :
    /\ events = ScoreEvents(<<BackendKind>>)
    /\ vectors = <<NewVector(1, "t1", b,
                              [workflow_name |-> None, outcome |-> BackendKind.outcome,
                               policy_version_id |-> None])>>
    /\ overrides = <<>>
    /\ posts = {}
    /\ imports = [id \in ImportIds |-> IdleImport]
    /\ response = None

NextCosine ==
  \E a \in CosineVectors, m \in {None, Some(<<1, 2>>)} :
    SimilarityQueryWith("t1", Query(a, None, m, None), Value(a))

SpecCosine == InitCosine /\ [][NextCosine]_vars

ZeroNorm(v) == \A i \in 1..Len(v) : v[i] = 0

\* no component of a or b squares to Infinity
FiniteNorms(a, b) == SumTo(a, a, Len(a)) <= MaxFinite /\ SumTo(b, b, Len(b)) <= MaxFinite

\* cosine similarity of vectors of unequal length or of a pair with a zero-norm
\* vector is 0, when no sum overflows
CosineZeroOnFinite ==
  IsSimilarityResponse =>
    \A n \in 1..Len(vectors) :
      LET a == response.query.text
          b == vectors[n].embedding
      IN  (FiniteNorms(a, b) /\ (Len(a) # Len(b) \/ ZeroNorm(a) \/ ZeroNorm(b)))
            => /\ cosineSimilarity(a, b) = RInt(0)
               /\ response.cases = <<>>

\* C18: cosine similarity of two vectors of unequal length, or of a pair in which
\* a vector has zero norm, is 0; no pair gives NaN; the query does not fail and
\* drops such a candidate.
C18_ZeroByConvention ==
  (response # None /\ "query" \in DOMAIN response) =>
    /\ response.route = "similarity"
    /\ \A n \in 1..Len(vectors) :
         LET a == response.query.text
             b == vectors[n].embedding
         IN  /\ cosineSimilarity(a, b) # NaN
             /\ (Len(a) # Len(b) \/ ZeroNorm(a) \/ ZeroNorm(b))
                   => /\ cosineSimilarity(a, b) = RInt(0)
                      /\ response.cases = <<>>

====
